---- MODULE Spec2Model ----
(***************************************************************************)
(* Cliniview ML service: the tiered symptom-to-disease inference pipeline  *)
(* of src/ml/app.py and the three checkers under src/ml/services.          *)
(*                                                                         *)
(* Confidences are fixed-point numbers in millionths (1000000 = 1.0).      *)
(* Symptom names and disease labels are strings; the string functions     *)
(* Python applies to them (lower, strip, title, replace, in, split) are    *)
(* computed character by character.                                       *)
(***************************************************************************)
EXTENDS Integers, Sequences, FiniteSets, TLC

(***************************************************************************)
(* Python string functions                                                 *)
(***************************************************************************)
Upper == "ABCDEFGHIJKLMNOPQRSTUVWXYZ"
LowerLetters == "abcdefghijklmnopqrstuvwxyz"

Char(s, i) == SubSeq(s, i, i)

\* position of the one-character string c in the alphabet a, 0 when absent
IndexIn(c, a) ==
  IF \E i \in 1..Len(a) : Char(a, i) = c
    THEN CHOOSE i \in 1..Len(a) : Char(a, i) = c
    ELSE 0

\* the character of alphabet a at position i, c itself when i is 0
CharAt(c, a, i) == IF i = 0 THEN c ELSE Char(a, i)

LowerChar(c) == CharAt(c, LowerLetters, IndexIn(c, Upper))
UpperChar(c) == CharAt(c, Upper, IndexIn(c, LowerLetters))
IsLetter(c) == IndexIn(c, Upper) # 0 \/ IndexIn(c, LowerLetters) # 0

RECURSIVE StrLower(_)
\* str.lower()
StrLower(s) == IF Len(s) = 0 THEN "" ELSE LowerChar(Char(s, 1)) \o StrLower(SubSeq(s, 2, Len(s)))

RECURSIVE LStrip(_)
LStrip(s) == IF Len(s) > 0 /\ Char(s, 1) = " " THEN LStrip(SubSeq(s, 2, Len(s))) ELSE s

RECURSIVE RStrip(_)
RStrip(s) == IF Len(s) > 0 /\ Char(s, Len(s)) = " " THEN RStrip(SubSeq(s, 1, Len(s) - 1)) ELSE s

\* str.strip()
StrStrip(s) == RStrip(LStrip(s))

RECURSIVE StrReplace(_, _, _)
\* str.replace(a, b) for one-character a and b
StrReplace(s, a, b) ==
  IF Len(s) = 0 THEN ""
  ELSE (IF Char(s, 1) = a THEN b ELSE Char(s, 1)) \o StrReplace(SubSeq(s, 2, Len(s)), a, b)

RECURSIVE TitleFrom(_, _)
TitleFrom(s, prevLetter) ==
  IF Len(s) = 0 THEN ""
  ELSE (IF prevLetter THEN LowerChar(Char(s, 1)) ELSE UpperChar(Char(s, 1)))
         \o TitleFrom(SubSeq(s, 2, Len(s)), IsLetter(Char(s, 1)))

\* str.title(): a letter after a non-letter is upper-cased, every other letter lower-cased
StrTitle(s) == TitleFrom(s, FALSE)

\* Python's (sub in s): substring containment; the empty string is in every string
StrIn(sub, s) ==
  \E i \in 0..(Len(s) - Len(sub)) : SubSeq(s, i + 1, i + Len(sub)) = sub

\* set(s.split()): the set of the whitespace-separated words of s
StrWords(s) ==
  { SubSeq(s, i, j) : <<i, j>> \in
      { p \in (1..Len(s)) \X (1..Len(s)) :
          /\ p[1] <= p[2]
          /\ \A k \in p[1]..p[2] : Char(s, k) # " "
          /\ (p[1] = 1 \/ Char(s, p[1] - 1) = " ")
          /\ (p[2] = Len(s) \/ Char(s, p[2] + 1) = " ") } }

(***************************************************************************)
(* Sequences                                                               *)
(***************************************************************************)
\* list.index / "first feature for which": the first position whose element passes, 0 if none
FirstIndex(seq, Test(_)) ==
  IF \E i \in 1..Len(seq) : Test(seq[i])
    THEN CHOOSE i \in 1..Len(seq) : Test(seq[i]) /\ \A j \in 1..(i - 1) : ~Test(seq[j])
    ELSE 0

InList(v, seq) == \E i \in 1..Len(seq) : seq[i] = v

RECURSIVE SumSeq(_)
SumSeq(seq) == IF Len(seq) = 0 THEN 0 ELSE Head(seq) + SumSeq(Tail(seq))

\* sum(1 for s in seq if Test(s))
SelectCount(seq, Test(_)) == Cardinality({i \in 1..Len(seq) : Test(seq[i])})

Take(seq, k) == SubSeq(seq, 1, IF k < Len(seq) THEN k ELSE Len(seq))

RECURSIVE InsertDesc(_, _)
\* p goes behind every element whose confidence is at least its own
InsertDesc(sorted, p) ==
  IF Len(sorted) = 0 THEN <<p>>
  ELSE IF Head(sorted).confidence >= p.confidence
         THEN <<Head(sorted)>> \o InsertDesc(Tail(sorted), p)
         ELSE <<p>> \o sorted

RECURSIVE SortDesc(_)
\* list.sort(key=confidence, reverse=True): stable, equal confidences keep their order
SortDesc(preds) ==
  IF Len(preds) = 0 THEN <<>>
  ELSE InsertDesc(SortDesc(SubSeq(preds, 1, Len(preds) - 1)), preds[Len(preds)])

(***************************************************************************)
(* Values                                                                  *)
(***************************************************************************)
\* a key that a request dict does not have
Absent == "<absent>"
\* Python's None where a string is expected
NoneStr == "<None>"

\* c * (pct / 100) on a fixed-point confidence
Mul(c, pct) == (c * pct) \div 100

Min(a, b) == IF a < b THEN a ELSE b
Max(a, b) == IF a > b THEN a ELSE b

\* dict.get(key, default) of a request symptom object
Get(v, default) == IF v = Absent THEN default ELSE v

Tiers == {"final_augmented", "columbia", "legacy"}

\* top_k / top_n, the default of the checkers' prediction methods
DefaultTopK == 5

(***************************************************************************)
(* Symptoms a request may carry                                            *)
(***************************************************************************)
Obj(name, severity, duration) ==
  [dict |-> TRUE, name |-> name, severity |-> severity, duration |-> duration]
Str(name) == [dict |-> FALSE, name |-> name, severity |-> Absent, duration |-> Absent]

\* symptom objects a request may carry (format 2)
SymptomObjects ==
  { Obj("fever", "mild", "1 day"),
    Obj("fever", Absent, Absent),
    Obj("fever", "moderate", "1 week"),
    Obj("cough", "severe", "2+ weeks"),
    Obj("zzz", "moderate", "1 week"),
    Obj(Absent, "severe", "2+ weeks") }

\* plain strings a request may carry (format 1)
SymptomStrings == { Str("fever"), Str("cough"), Str("zzz") }

\* The strings the checkers meet.  Each string function of a checker is tabulated
\* over them once, and the checkers read the tables.
SymptomNames == ({ o.name : o \in SymptomObjects \cup SymptomStrings } \ {Absent}) \cup {""}
SeverityValues ==
  ({ o.severity : o \in SymptomObjects } \ {Absent})
    \cup {"mild", "moderate", "severe", "very severe", "Severe", "unbearable"}
DurationValues ==
  ({ o.duration : o \in SymptomObjects } \ {Absent})
    \cup {"1 day", "2-3 days", "1 week", "2+ weeks", "less than 1 week", "more than 1 month",
          "a while"}

(***************************************************************************)
(* The model bundles: vocabularies and label arrays of the three tiers.    *)
(* They come from the pickled bundles, which the services only read.       *)
(***************************************************************************)
FinalFeatureColumns == <<"high fever", "fever", "cough">>
FinalClasses == <<"Diabetes", "Flu", "Heart Attack">>

ColumbiaFeatureColumns == <<"Fever ", "Cough", "pain chest">>
ColumbiaClasses == <<"Diabetes", "Myocardial Infarction", "Pneumonia">>

LegacySymptomColumns == <<"high_fever", "cough", "headache">>
LegacyClasses == <<"AIDS", "Common Cold", "Heart attack">>

(***************************************************************************)
(* FinalAugmentedMLSymptomChecker                                          *)
(***************************************************************************)
\* A variant that tries the partial match before the exact one.
FinalFirstMatchPartialFirst(exact, partial, word) ==
  IF partial # 0 THEN FinalFeatureColumns[partial]
  ELSE IF exact # 0 THEN FinalFeatureColumns[exact]
  ELSE IF word # 0 THEN FinalFeatureColumns[word]
  ELSE NoneStr

\* the first hit of: exact match, partial match, word match; None without a hit
FinalFirstMatch(exact, partial, word) ==
  IF exact # 0 THEN FinalFeatureColumns[exact]
  ELSE IF partial # 0 THEN FinalFeatureColumns[partial]
  ELSE IF word # 0 THEN FinalFeatureColumns[word]
  ELSE NoneStr

\* the three passes of normalize_symptom_name over feature_columns
FinalMatch(symptom_normalized) ==
  FinalFirstMatch(
    FirstIndex(FinalFeatureColumns, LAMBDA feature : StrLower(feature) = symptom_normalized),
    FirstIndex(FinalFeatureColumns,
      LAMBDA feature : \/ StrIn(symptom_normalized, StrLower(feature))
                       \/ StrIn(StrLower(feature), symptom_normalized)),
    FirstIndex(FinalFeatureColumns,
      LAMBDA feature : StrWords(symptom_normalized) \cap StrWords(StrLower(feature)) # {}))

FinalNormalizeSymptomName(symptom) == FinalMatch(StrLower(StrStrip(symptom)))

FinalNormalized == [n \in SymptomNames |-> FinalNormalizeSymptomName(n)]

\* severity_multipliers.get(severity.lower(), 1.0), in tenths
FinalSeverityMult(severity) ==
  LET s == StrLower(severity)
  IN  IF s = "mild" THEN 7
      ELSE IF s = "moderate" THEN 10
      ELSE IF s = "severe" THEN 15
      ELSE IF s = "very severe" THEN 20
      ELSE 10

\* duration_multipliers.get(duration.lower(), 1.0), in tenths
FinalDurationMult(duration) ==
  LET d == StrLower(duration)
  IN  IF d = "less than 1 week" THEN 8
      ELSE IF d = "1 week" THEN 10
      ELSE IF d = "2+ weeks" THEN 13
      ELSE IF d = "more than 1 month" THEN 16
      ELSE 10

FinalSeverityMults == [s \in SeverityValues |-> FinalSeverityMult(s)]
FinalDurationMults == [d \in DurationValues |-> FinalDurationMult(d)]

\* severity_duration_mapping[symptom]['base_weight'], default 1.0, in thousandths;
\* the bundles of this model carry no mapping
FinalBaseWeight(symptom_name) == 1000

\* the enhancement weight in thousandths: max(0.5, min(base * sev * dur, 3.0))
FinalEnhancementWeight(base_weight, severity, duration) ==
  Max(500, Min((base_weight * FinalSeverityMults[severity] * FinalDurationMults[duration]) \div 100,
               3000))

FinalCalculateEnhancementWeight(symptom_name, severity, duration) ==
  FinalEnhancementWeight(FinalBaseWeight(symptom_name), severity, duration)

\* A variant that enters a matched symptom twice in processed_symptoms.
FinalSetFeatureTwice(acc, symptom_obj, normalized_name) ==
  LET feature_index == FirstIndex(FinalFeatureColumns, LAMBDA f : f = normalized_name)
      enhancement_weight ==
        FinalCalculateEnhancementWeight(normalized_name,
                                        Get(symptom_obj.severity, "moderate"),
                                        Get(symptom_obj.duration, "1 week"))
  IN  IF normalized_name # NoneStr /\ normalized_name # "" /\ feature_index # 0
        THEN [fv |-> [acc.fv EXCEPT ![feature_index] = enhancement_weight],
              weights |-> Append(acc.weights, enhancement_weight),
              processed |-> acc.processed + 2]
        ELSE acc

\* the loop body of _create_feature_vector_enhanced behind normalize_symptom_name
FinalSetFeature(acc, symptom_obj, normalized_name) ==
  LET feature_index == FirstIndex(FinalFeatureColumns, LAMBDA f : f = normalized_name)
      enhancement_weight ==
        FinalCalculateEnhancementWeight(normalized_name,
                                        Get(symptom_obj.severity, "moderate"),
                                        Get(symptom_obj.duration, "1 week"))
  IN  IF normalized_name # NoneStr /\ normalized_name # "" /\ feature_index # 0
        THEN [fv |-> [acc.fv EXCEPT ![feature_index] = enhancement_weight],
              weights |-> Append(acc.weights, enhancement_weight),
              processed |-> acc.processed + 1]
        ELSE acc

RECURSIVE FinalCreateFeatureVectorEnhanced(_, _)
\* Folds the symptom objects into [fv, weights, processed]; a slot of fv holds the
\* enhancement weight in thousandths, the value written being weight / 3.0.
FinalCreateFeatureVectorEnhanced(symptom_objects, acc) ==
  IF Len(symptom_objects) = 0 THEN acc
  ELSE
    FinalCreateFeatureVectorEnhanced(Tail(symptom_objects),
      FinalSetFeature(acc, Head(symptom_objects),
                      FinalNormalized[Get(Head(symptom_objects).name, "")]))

FinalEmptyVector == [fv |-> [i \in 1..Len(FinalFeatureColumns) |-> 0], weights |-> <<>>, processed |-> 0]

\* critical_diseases of _apply_medical_safety_constraints
FinalCriticalDiseases ==
  {"myocardial infarction", "heart attack", "stroke", "cerebral",
   "acute", "emergency", "severe", "critical", "life threatening"}

FinalIsCritical(disease) ==
  \E critical \in FinalCriticalDiseases : StrIn(critical, StrLower(disease))

FinalCritical == [d \in { FinalClasses[i] : i \in 1..Len(FinalClasses) } |-> FinalIsCritical(d)]

\* A variant whose single-symptom factor for a critical disease is 0.1.
FinalAdjustTenth(disease, confidence, symptom_count, enhancement_weights) ==
  LET n == Len(enhancement_weights)
      high == n > 0 /\ SumSeq(enhancement_weights) > 1500 * n
      low == n > 0 /\ SumSeq(enhancement_weights) < 800 * n
      critical == FinalCritical[disease]
      r1 == IF symptom_count = 1
              THEN (IF critical THEN Mul(confidence, 10) ELSE Mul(confidence, 40))
              ELSE confidence
      r2 == IF high THEN (IF critical THEN Mul(r1, 120) ELSE r1)
            ELSE IF low THEN (IF critical THEN Mul(r1, 60) ELSE r1)
            ELSE r1
      r3 == IF symptom_count >= 3 THEN Mul(r2, 110) ELSE r2
  IN  Min(r3, 850000)

\* The adjusted confidence of one (disease, confidence) pair.
FinalAdjust(disease, confidence, symptom_count, enhancement_weights) ==
  LET n == Len(enhancement_weights)
      \* avg_enhancement = mean(weights) if weights else 1.0, compared with 1.5 and 0.8
      high == n > 0 /\ SumSeq(enhancement_weights) > 1500 * n
      low == n > 0 /\ SumSeq(enhancement_weights) < 800 * n
      critical == FinalCritical[disease]
      r1 == IF symptom_count = 1
              THEN (IF critical THEN Mul(confidence, 15) ELSE Mul(confidence, 40))
              ELSE confidence
      r2 == IF high THEN (IF critical THEN Mul(r1, 120) ELSE r1)
            ELSE IF low THEN (IF critical THEN Mul(r1, 60) ELSE r1)
            ELSE r1
      r3 == IF symptom_count >= 3 THEN Mul(r2, 110) ELSE r2
  IN  Min(r3, 850000)

FinalApplyMedicalSafetyConstraints(predictions, symptom_count, enhancement_weights) ==
  [i \in 1..Len(predictions) |->
     [disease |-> predictions[i].disease,
      confidence |-> FinalAdjust(predictions[i].disease, predictions[i].confidence,
                                 symptom_count, enhancement_weights)]]

\* list(zip(classes, probabilities))
Zip(classes, probabilities) ==
  [i \in 1..Len(classes) |-> [disease |-> classes[i], confidence |-> probabilities[i]]]

\* What a checker method hands back: the returned value (result), whether
\* predict_proba was called, the feature vector it built, and the exception
\* that escaped it (raised, NoneStr when it returned).
NoVector == <<>>
ErrorDict(model_info, message, called, fv) ==
  [result |-> [kind |-> "dict", predictions |-> <<>>, model_info |-> model_info,
               error |-> message, total_symptoms |-> -1, processed_symptoms |-> -1],
   called |-> called, fv |-> fv, raised |-> NoneStr]

\* the try block of predict_diseases_enhanced behind the feature vector v
FinalPredictFrom(symptom_objects, cls, top_k, v) ==
  IF cls.raises
    THEN ErrorDict("final_augmented_enhanced", "Prediction error", TRUE, v.fv)
    ELSE [result |->
            [kind |-> "dict",
             predictions |->
               Take(SortDesc(FinalApplyMedicalSafetyConstraints(
                               SortDesc(Zip(FinalClasses, cls.proba)),
                               Len(symptom_objects), v.weights)),
                    top_k),
             model_info |-> "final_augmented_enhanced", error |-> NoneStr,
             total_symptoms |-> Len(symptom_objects),
             processed_symptoms |-> v.processed],
          called |-> TRUE, fv |-> v.fv, raised |-> NoneStr]

FinalPredictDiseasesEnhanced(symptom_objects, cls, top_k) ==
  IF Len(symptom_objects) = 0
    THEN ErrorDict("final_augmented_enhanced", "No symptoms provided", FALSE, NoVector)
    ELSE FinalPredictFrom(symptom_objects, cls, top_k,
           FinalCreateFeatureVectorEnhanced(symptom_objects, FinalEmptyVector))

\* A plain string becomes {'name': s, 'severity': 'moderate', 'duration': '1 week'}
AsObject(symptom, severity, duration) ==
  [dict |-> TRUE, name |-> symptom.name, severity |-> severity, duration |-> duration]

FinalPredictDiseasesLegacy(symptoms, cls) ==
  FinalPredictDiseasesEnhanced(
    [i \in 1..Len(symptoms) |-> AsObject(symptoms[i], "moderate", "1 week")], cls, DefaultTopK)

(***************************************************************************)
(* ColumbiaMLSymptomChecker                                                *)
(***************************************************************************)
\* A variant whose case-variation lookup returns the title-cased input, not the feature.
ColumbiaMatchTitled(symptom_normalized, variation) ==
  IF InList(symptom_normalized \o " ", ColumbiaFeatureColumns) THEN symptom_normalized \o " "
  ELSE IF InList(symptom_normalized, ColumbiaFeatureColumns) THEN symptom_normalized
  ELSE IF variation # 0 THEN symptom_normalized
  ELSE NoneStr

\* the lookups of normalize_symptom_name: with the trailing space, without it, then
\* the first feature equal to it apart from case and surrounding spaces
ColumbiaMatch(symptom_normalized, variation) ==
  IF InList(symptom_normalized \o " ", ColumbiaFeatureColumns) THEN symptom_normalized \o " "
  ELSE IF InList(symptom_normalized, ColumbiaFeatureColumns) THEN symptom_normalized
  ELSE IF variation # 0 THEN ColumbiaFeatureColumns[variation]
  ELSE NoneStr

ColumbiaVariation(symptom_lower) ==
  FirstIndex(ColumbiaFeatureColumns,
    LAMBDA feature : StrLower(StrStrip(feature)) = symptom_lower)

ColumbiaNormalizeSymptomName(symptom) ==
  ColumbiaMatch(StrReplace(StrTitle(StrStrip(symptom)), "_", " "),
                ColumbiaVariation(StrLower(StrReplace(StrTitle(StrStrip(symptom)), "_", " "))))

ColumbiaNormalized == [n \in SymptomNames |-> ColumbiaNormalizeSymptomName(n)]

\* severity_multipliers.get(severity.lower(), 1.0), in tenths
ColumbiaSeverityMult(severity) ==
  LET s == StrLower(severity)
  IN  IF s = "mild" THEN 7
      ELSE IF s = "moderate" THEN 10
      ELSE IF s = "severe" THEN 14
      ELSE IF s = "very severe" THEN 18
      ELSE 10

\* duration_multipliers.get(duration.lower(), 1.0), in tenths
ColumbiaDurationMult(duration) ==
  LET d == StrLower(duration)
  IN  IF d = "less than 1 week" THEN 8
      ELSE IF d = "1 week" THEN 10
      ELSE IF d = "2+ weeks" THEN 13
      ELSE IF d = "more than 1 month" THEN 16
      ELSE 10

ColumbiaSeverityMults == [s \in SeverityValues |-> ColumbiaSeverityMult(s)]
ColumbiaDurationMults == [d \in DurationValues |-> ColumbiaDurationMult(d)]

\* columbia_symptom_mapping[symptom]['weight'], default 4.0, in thousandths;
\* no mapping file is present in this model
ColumbiaBaseWeight(symptom_name) == 4000

\* A variant without the cap of the weight.
ColumbiaSymptomWeightUncapped(base_weight, severity, duration) ==
  (base_weight * ColumbiaSeverityMults[severity] * ColumbiaDurationMults[duration]) \div 100

\* the symptom weight in thousandths: min(max(base * sev * dur, 1.0), 8.0)
ColumbiaSymptomWeight(base_weight, severity, duration) ==
  Min(Max((base_weight * ColumbiaSeverityMults[severity] * ColumbiaDurationMults[duration]) \div 100,
          1000), 8000)

ColumbiaCalculateSymptomWeight(severity, duration, symptom_name) ==
  ColumbiaSymptomWeight(ColumbiaBaseWeight(symptom_name), severity, duration)

\* the loop body of _create_feature_vector_enhanced behind normalize_symptom_name
ColumbiaSetFeature(fv, symptom_obj, normalized_name) ==
  LET feature_index == FirstIndex(ColumbiaFeatureColumns, LAMBDA f : f = normalized_name)
  IN  IF normalized_name # NoneStr /\ normalized_name # "" /\ feature_index # 0
        THEN [fv EXCEPT ![feature_index] =
                ColumbiaCalculateSymptomWeight(Get(symptom_obj.severity, "moderate"),
                                               Get(symptom_obj.duration, "1 week"),
                                               Get(symptom_obj.name, ""))]
        ELSE fv

RECURSIVE ColumbiaCreateFeatureVectorEnhanced(_, _)
\* Folds the symptom objects into the feature vector; a slot holds the weight in thousandths.
ColumbiaCreateFeatureVectorEnhanced(symptom_objects, fv) ==
  IF Len(symptom_objects) = 0 THEN fv
  ELSE
    ColumbiaCreateFeatureVectorEnhanced(Tail(symptom_objects),
      ColumbiaSetFeature(fv, Head(symptom_objects),
                         ColumbiaNormalized[Get(Head(symptom_objects).name, "")]))

ColumbiaSingleSymptomDiseases == {"Myocardial Infarction", "Accident Cerebrovascular", "Pneumonia"}
ColumbiaHighSeverityDiseases ==
  {"Myocardial Infarction", "Accident Cerebrovascular", "Failure Heart Congestive"}

ColumbiaAdjust(disease, confidence, symptom_count) ==
  LET r1 == IF symptom_count = 1
              THEN (IF disease \in ColumbiaSingleSymptomDiseases
                      THEN Mul(confidence, 10) ELSE Mul(confidence, 30))
              ELSE confidence
      r2 == IF disease \in ColumbiaHighSeverityDiseases /\ symptom_count < 3
              THEN Mul(r1, 40) ELSE r1
  IN  Min(r2, 850000)

ColumbiaApplyMedicalSafety(predictions, symptom_count) ==
  [i \in 1..Len(predictions) |->
     [disease |-> predictions[i].disease,
      confidence |-> ColumbiaAdjust(predictions[i].disease, predictions[i].confidence,
                                    symptom_count)]]

\* the try block of predict_diseases_enhanced behind the feature vector fv
ColumbiaPredictFrom(symptom_objects, cls, top_k, fv) ==
  IF cls.raises
    THEN ErrorDict("columbia_enhanced", "Prediction error", TRUE, fv)
    ELSE [result |->
            [kind |-> "dict",
             predictions |->
               Take(SortDesc(ColumbiaApplyMedicalSafety(
                               SortDesc(Zip(ColumbiaClasses, cls.proba)),
                               Len(symptom_objects))),
                    top_k),
             model_info |-> "columbia_enhanced", error |-> NoneStr,
             total_symptoms |-> Len(symptom_objects),
             processed_symptoms |->
               SelectCount(symptom_objects,
                 LAMBDA s : InList(ColumbiaNormalized[Get(s.name, "")],
                                   ColumbiaFeatureColumns))],
          called |-> TRUE, fv |-> fv, raised |-> NoneStr]

ColumbiaPredictDiseasesEnhanced(symptom_objects, cls, top_k) ==
  IF Len(symptom_objects) = 0
    THEN ErrorDict("columbia_enhanced", "No symptoms provided", FALSE, NoVector)
  ELSE
    ColumbiaPredictFrom(symptom_objects, cls, top_k,
      ColumbiaCreateFeatureVectorEnhanced(symptom_objects,
        [i \in 1..Len(ColumbiaFeatureColumns) |-> 0]))

ColumbiaPredictDiseasesLegacy(symptoms, cls) ==
  ColumbiaPredictDiseasesEnhanced(
    [i \in 1..Len(symptoms) |-> AsObject(symptoms[i], "moderate", "1 week")], cls, DefaultTopK)

(***************************************************************************)
(* MLSymptomChecker (the legacy tier)                                      *)
(***************************************************************************)
\* symptom_mappings of _normalize_symptom, as <<key, value>> pairs
LegacySymptomMappings ==
  { <<"fever", "high_fever">>, <<"cough", "cough">>, <<"headache", "headache">>,
    <<"fatigue", "fatigue">>, <<"nausea", "nausea">>, <<"vomiting", "vomiting">>,
    <<"diarrhea", "diarrhoea">>, <<"diarrhoea", "diarrhoea">>,
    <<"stomach_ache", "stomach_pain">>, <<"stomach_pain", "stomach_pain">>,
    <<"abdominal_pain", "abdominal_pain">>, <<"chest_pain", "chest_pain">>,
    <<"back_pain", "back_pain">>, <<"joint_pain", "joint_pain">>,
    <<"muscle_pain", "muscle_pain">>, <<"muscle_weakness", "muscle_weakness">>,
    <<"shortness_of_breath", "breathlessness">>, <<"difficulty_breathing", "breathlessness">>,
    <<"breathlessness", "breathlessness">>, <<"skin_rash", "skin_rash">>,
    <<"rash", "skin_rash">>, <<"itching", "itching">>, <<"sweating", "sweating">>,
    <<"dizziness", "dizziness">>, <<"weakness", "weakness_in_limbs">>,
    <<"weight_loss", "weight_loss">>, <<"weight_gain", "weight_gain">>,
    <<"loss_of_appetite", "loss_of_appetite">>, <<"constipation", "constipation">>,
    <<"dehydration", "dehydration">>, <<"chills", "chills">>, <<"shivering", "shivering">> }

\* symptom.lower().strip().replace(' ', '_').replace('-', '_')
LegacyCanonical(s) == StrReplace(StrReplace(StrStrip(StrLower(s)), " ", "_"), "-", "_")

\* symptom_mappings.get(normalized, normalized)
LegacyMapped(normalized) ==
  IF \E m \in LegacySymptomMappings : m[1] = normalized
    THEN (CHOOSE m \in LegacySymptomMappings : m[1] = normalized)[2]
    ELSE normalized

LegacyNormalizeSymptom(symptom) == LegacyMapped(LegacyCanonical(symptom))

LegacyNormalized == [n \in SymptomNames |-> LegacyNormalizeSymptom(n)]

\* the column of the feature vector a normalized name selects, 0 if none
LegacyColumnOf(normalized_symptom) ==
  FirstIndex(LegacySymptomColumns,
    LAMBDA col_symptom : LegacyCanonical(col_symptom) = normalized_symptom)

LegacyColumn == [n \in SymptomNames |-> LegacyColumnOf(LegacyNormalized[n])]

\* severity_weights.get(severity, 4.5), in tenths
LegacySeverityWeight(severity) ==
  IF severity = "mild" THEN 20
  ELSE IF severity = "moderate" THEN 45
  ELSE IF severity = "severe" THEN 70
  ELSE 45

\* duration_multipliers.get(duration, 1.0), in tenths
LegacyDurationMult(duration) ==
  IF duration = "1 day" THEN 7
  ELSE IF duration = "2-3 days" THEN 10
  ELSE IF duration = "1 week" THEN 13
  ELSE IF duration = "2+ weeks" THEN 18
  ELSE 10

\* A variant that clips the feature value to 1.0.
LegacyFeatureValueClipped(severity, duration) ==
  Min(LegacySeverityWeight(severity) * LegacyDurationMult(duration), 700)

\* (severity_score / 7.0) * duration_multiplier, counted in 1/700
LegacyFeatureValue(severity, duration) ==
  LegacySeverityWeight(severity) * LegacyDurationMult(duration)

\* the loop body of _create_feature_vector_enhanced: j is the column the name selects
LegacySetFeature(fv, symptom_obj, j) ==
  IF j # 0
    THEN [fv EXCEPT ![j] = LegacyFeatureValue(Get(symptom_obj.severity, "moderate"),
                                              Get(symptom_obj.duration, "2-3 days"))]
    ELSE fv

RECURSIVE LegacyCreateFeatureVectorEnhanced(_, _)
LegacyCreateFeatureVectorEnhanced(symptom_objects, fv) ==
  IF Len(symptom_objects) = 0 THEN fv
  ELSE
    LegacyCreateFeatureVectorEnhanced(Tail(symptom_objects),
      LegacySetFeature(fv, Head(symptom_objects),
                       LegacyColumn[Get(Head(symptom_objects).name, "")]))

\* _get_disease_severity: the second definition of the class body is the one in force
LegacyGetDiseaseSeverity(disease_name) ==
  LET disease_lower == StrLower(disease_name)
  IN  IF \E serious \in {"aids", "cancer", "heart_attack", "stroke", "meningitis", "tuberculosis"} :
           StrIn(serious, disease_lower)
        THEN "serious"
      ELSE IF \E mod \in {"diabetes", "hypertension", "hepatitis", "pneumonia", "malaria"} :
           StrIn(mod, disease_lower)
        THEN "moderate"
      ELSE "mild"

\* _get_disease_recommendations: the list returned, by the name of its first entry
LegacyGetDiseaseRecommendations(disease_name, severity) ==
  IF severity = "serious" THEN "urgent"
  ELSE IF severity = "moderate" THEN "schedule_appointment"
  ELSE "self_care"

LegacySeriousDiseases ==
  {"aids", "heart attack", "stroke", "cancer", "tuberculosis", "paralysis",
   "brain hemorrhage", "hepatitis"}
LegacyCommonSymptoms == {"fever", "headache", "fatigue", "cough", "nausea"}
LegacyRareDiseases == {"aids", "malaria", "tuberculosis", "hepatitis c"}

\* symptom_names of _apply_medical_safety_constraints
LegacySymptomNames(symptom_objects) ==
  [i \in 1..Len(symptom_objects) |-> Get(symptom_objects[i].name, "")]

LegacyIsSerious(disease) == \E d \in LegacySeriousDiseases : StrIn(d, StrLower(disease))
LegacyIsRare(disease) == \E d \in LegacyRareDiseases : StrIn(d, StrLower(disease))
\* any(common in s for common in common_symptoms), s the lower-cased name
LegacyIsCommon(name) == \E c \in LegacyCommonSymptoms : StrIn(c, StrLower(name))
\* 'fever' in single_symptom
LegacyHasFever(name) == StrIn("fever", StrLower(name))

LegacyLabels == { LegacyClasses[i] : i \in 1..Len(LegacyClasses) }
LegacySerious == [d \in LegacyLabels |-> LegacyIsSerious(d)]
LegacyRare == [d \in LegacyLabels |-> LegacyIsRare(d)]
LegacySeverity == [d \in LegacyLabels |-> LegacyGetDiseaseSeverity(d)]
LegacyCommon == [n \in SymptomNames |-> LegacyIsCommon(n)]
LegacyFever == [n \in SymptomNames |-> LegacyHasFever(n)]

\* Rule 1 of _apply_medical_safety_constraints, in ten-thousandths with the notes:
\* the elif branch (symptom_count < 2) lies behind symptom_count < 3
LegacyRule1(serious, symptom_count) ==
  IF serious
    THEN (IF symptom_count < 3
            THEN [m |-> 1500, notes |-> <<"multiple_symptoms_required">>]
          ELSE IF symptom_count < 2
            THEN [m |-> 500, notes |-> <<"single_symptom_unreliable">>]
          ELSE [m |-> 10000, notes |-> <<>>])
    ELSE [m |-> 10000, notes |-> <<>>]

\* Rule 2: len(common names) >= symptom_count * 0.7 and a rare disease
LegacyRule2(m1, common, symptom_count, rare) ==
  IF 10 * common >= 7 * symptom_count /\ rare
    THEN [m |-> (m1.m * 3) \div 10, notes |-> Append(m1.notes, "common_symptoms_rare_disease")]
    ELSE m1

\* Rule 3: a single symptom
LegacyRule3(m2, symptom_names, serious) ==
  IF Len(symptom_names) = 1
    THEN (IF LegacyFever[symptom_names[1]] /\ serious
            THEN [m |-> (((m2.m * 4) \div 10) * 1) \div 10,
                  notes |-> Append(m2.notes, "fever_alone_insufficient")]
            ELSE [m |-> (m2.m * 4) \div 10, notes |-> m2.notes])
    ELSE m2

\* The confidence multiplier of one prediction, in ten-thousandths, and its safety notes.
LegacyMultiplier(disease, symptom_objects) ==
  LegacyRule3(
    LegacyRule2(LegacyRule1(LegacySerious[disease], Len(symptom_objects)),
                SelectCount(LegacySymptomNames(symptom_objects), LAMBDA n : LegacyCommon[n]),
                Len(symptom_objects), LegacyRare[disease]),
    LegacySymptomNames(symptom_objects), LegacySerious[disease])

\* original_confidence * confidence_multiplier
LegacyScale(confidence, m) == ((confidence \div 100) * m) \div 100

LegacySentinel(symptom_count) ==
  [disease |-> "General Medical Concern", confidence |-> 0, severity |-> "unknown",
   recommendations |-> "professional_evaluation", matching_symptoms |-> symptom_count,
   safety_notes |-> <<"human_evaluation_recommended">>, original_confidence |-> 0]

\* safe_pred of the loop: the prediction with its adjusted confidence and notes
LegacySafePred(pred, mult) ==
  [pred EXCEPT !.confidence = LegacyScale(pred.confidence, mult.m),
               !.safety_notes = mult.notes,
               !.original_confidence = pred.confidence]

\* the loop of _apply_medical_safety_constraints: adjusts every prediction, and skips
\* the ones whose adjusted confidence falls below 0.03
LegacyKeepSafe(predictions, symptom_objects) ==
  SelectSeq([i \in 1..Len(predictions) |->
               LegacySafePred(predictions[i],
                              LegacyMultiplier(predictions[i].disease, symptom_objects))],
            LAMBDA safe_pred : safe_pred.confidence >= 30000)

\* the sentinel goes in front when nothing is left or the best is below 0.15
LegacyWithSentinel(safe_predictions, symptom_count) ==
  IF Len(safe_predictions) = 0 \/ safe_predictions[1].confidence < 150000
    THEN <<LegacySentinel(symptom_count)>> \o safe_predictions
    ELSE safe_predictions

LegacyApplyMedicalSafetyConstraints(predictions, symptom_objects) ==
  LegacyWithSentinel(SortDesc(LegacyKeepSafe(predictions, symptom_objects)),
                     Len(symptom_objects))

RECURSIVE ArgSortDesc(_, _)
\* np.argsort(probabilities)[::-1]: the indices by ascending probability (equal
\* probabilities by ascending index), reversed
ArgSortDesc(probabilities, left) ==
  IF left = {} THEN <<>>
  ELSE LET idx == CHOOSE i \in left :
                    \A k \in left : \/ probabilities[i] > probabilities[k]
                                    \/ (probabilities[i] = probabilities[k] /\ i >= k)
       IN  <<idx>> \o ArgSortDesc(probabilities, left \ {idx})

LegacyInsufficientInformation ==
  [disease |-> "Insufficient Information", confidence |-> 0, severity |-> "unknown",
   recommendations |-> "enter_recognizable_symptoms", matching_symptoms |-> 0,
   safety_notes |-> <<>>, original_confidence |-> 0]

LegacyMatchingSymptoms(names) ==
  SelectCount(names, LAMBDA s : InList(LegacyNormalized[s], LegacySymptomColumns))

ListResult(predictions, called, fv) ==
  [result |-> [kind |-> "list", predictions |-> predictions, model_info |-> NoneStr,
               error |-> NoneStr, total_symptoms |-> -1, processed_symptoms |-> -1],
   called |-> called, fv |-> fv, raised |-> NoneStr]

\* top_indices[:top_n * 2] with probabilities[idx] > 0.01
LegacyKept(probabilities, top_n) ==
  SelectSeq(Take(ArgSortDesc(probabilities, 1..Len(probabilities)), top_n * 2),
            LAMBDA idx : probabilities[idx] > 10000)

\* raw_predictions: one entry for each kept index
LegacyRawPredictions(kept, probabilities, matching_symptoms) ==
  [k \in 1..Len(kept) |->
     [disease |-> LegacyClasses[kept[k]], confidence |-> probabilities[kept[k]],
      severity |-> LegacySeverity[LegacyClasses[kept[k]]],
      recommendations |-> "none",
      matching_symptoms |-> matching_symptoms,
      safety_notes |-> <<>>, original_confidence |-> probabilities[kept[k]]]]

\* pred['recommendations'] = _get_disease_recommendations(disease, severity) for each
LegacyWithRecommendations(safe_predictions) ==
  [k \in 1..Len(safe_predictions) |->
     [safe_predictions[k] EXCEPT !.recommendations =
        LegacyGetDiseaseRecommendations(safe_predictions[k].disease,
                                        safe_predictions[k].severity)]]

\* the try block of predict_diseases_enhanced behind the feature vector; an object
\* without a name makes obj.get('name') None, and None.lower() raises in the loop
\* over the kept indices (caught: the method returns [])
LegacyPredictFrom(symptom_objects, cls, top_n, fv, kept) ==
  IF SumSeq(fv) = 0 THEN ListResult(<<LegacyInsufficientInformation>>, FALSE, fv)
  ELSE IF cls.raises THEN ListResult(<<>>, TRUE, fv)
  ELSE IF Len(kept) > 0 /\ \E i \in 1..Len(symptom_objects) : symptom_objects[i].name = Absent
    THEN ListResult(<<>>, TRUE, fv)
  ELSE ListResult(
         LegacyWithRecommendations(
           Take(LegacyApplyMedicalSafetyConstraints(
                  LegacyRawPredictions(kept, cls.proba,
                    LegacyMatchingSymptoms(
                      [i \in 1..Len(symptom_objects) |-> symptom_objects[i].name])),
                  symptom_objects),
                top_n)),
         TRUE, fv)

\* predict_diseases_enhanced of the legacy tier returns a bare list.  nameIsDict says
\* the 'name' of every object is itself a dict (analyze wrapped a list of objects).
LegacyPredictDiseasesEnhanced(symptom_objects, cls, top_n, nameIsDict) ==
  IF Len(symptom_objects) = 0 THEN ListResult(<<>>, FALSE, NoVector)
  ELSE IF nameIsDict THEN ListResult(<<>>, FALSE, NoVector)   \* dict.lower(): AttributeError, caught
  ELSE LegacyPredictFrom(symptom_objects, cls, top_n,
         LegacyCreateFeatureVectorEnhanced(symptom_objects,
           [i \in 1..Len(LegacySymptomColumns) |-> 0]),
         LegacyKept(cls.proba, top_n))

\* the dict analyze and analyze_enhanced build around the predictions; its
\* 'matched_symptoms' is reported here as processed_symptoms
LegacyAnalysis(p, total_symptoms, matched_symptoms) ==
  [p EXCEPT !.result = [kind |-> "dict", predictions |-> p.result.predictions,
                        model_info |-> "ml_enhanced", error |-> NoneStr,
                        total_symptoms |-> total_symptoms,
                        processed_symptoms |-> matched_symptoms]]

\* _normalize_symptom(s) for s in symptoms, after the predictions: a dict has no lower()
LegacyAnalyzeReturn(p, symptoms, itemsAreDicts) ==
  IF itemsAreDicts
    THEN [p EXCEPT !.raised = "AttributeError"]
    ELSE LegacyAnalysis(p, Len(symptoms),
           LegacyMatchingSymptoms([i \in 1..Len(symptoms) |-> symptoms[i].name]))

\* analyze: every item becomes {'name': s, 'severity': 'moderate', 'duration': '2-3 days'}
LegacyAnalyze(symptoms, cls, top_n) ==
  LegacyAnalyzeReturn(
    LegacyPredictDiseasesEnhanced(
      [i \in 1..Len(symptoms) |-> AsObject(symptoms[i], "moderate", "2-3 days")],
      cls, top_n, Len(symptoms) > 0 /\ symptoms[1].dict),
    symptoms, Len(symptoms) > 0 /\ symptoms[1].dict)

LegacyAnalyzeEnhanced(symptom_objects, cls, top_n) ==
  LegacyAnalysis(LegacyPredictDiseasesEnhanced(symptom_objects, cls, top_n, FALSE),
                 Len(symptom_objects),
                 LegacyMatchingSymptoms(LegacySymptomNames(symptom_objects)))

(***************************************************************************)
(* Inputs                                                                  *)
(***************************************************************************)
\* the longest symptoms list of a request
MaxSymptoms == 3

\* the lists of at most MaxSymptoms different entries of S
ListsOver(S) ==
  UNION { { l \in [1..n -> S] : \A i, j \in 1..n : l[i] = l[j] => i = j } : n \in 0..MaxSymptoms }

\* the lists that carry one entry of S twice
Repeated(S) == { <<x, x>> : x \in S }

\* a request body: its 'symptoms' list, or no 'symptoms' key at all
Requests ==
  { [hasKey |-> TRUE, symptoms |-> l] :
      l \in ListsOver(SymptomObjects) \cup ListsOver(SymptomStrings)
               \cup Repeated(SymptomObjects) \cup Repeated(SymptomStrings) }
    \cup { [hasKey |-> FALSE, symptoms |-> <<>>] }

Permutations3(a, b, c) ==
  { <<a, b, c>>, <<a, c, b>>, <<b, a, c>>, <<b, c, a>>, <<c, a, b>>, <<c, b, a>> }

\* rows predict_proba may return for the three labels of a tier, and its raising
ClassifierOutcomes ==
  { [raises |-> FALSE, proba |-> p] :
      p \in Permutations3(950000, 50000, 0) \cup Permutations3(500000, 500000, 0)
              \cup { <<500000, 300000, 200000>>, <<200000, 500000, 300000>>,
                     <<300000, 200000, 500000>> } }
    \cup { [raises |-> TRUE, proba |-> <<0, 0, 0>>] }

\* what may lie on disk for each tier when the process starts
Bundles ==
  [final_augmented : {"ok", "missing", "no_test_accuracy"},
   columbia : {"ok", "missing"},
   legacy : {"ok", "missing"}]

(***************************************************************************)
(* State                                                                   *)
(***************************************************************************)
VARIABLES
  pc,                        \* where the process is: module-level statements, then serving
  bundle,                    \* the model files on disk
  final_augmented_checker,   \* the module globals of app.py: "unset", "None" or "obj"
  columbia_checker,
  legacy_checker,
  symptom_checker,           \* "unset", "None" or the tier it refers to
  assigned,                  \* how often each checker global has been assigned
  routed,                    \* tiers that have handled a request of the routing endpoints
  request,                   \* the request just handled, with its endpoint
  response,                  \* the response to it
  active,                    \* the tier whose method the handler called, "none" if none
  invoked,                   \* whether that tier's predict_proba was called for it
  classifier,                \* what predict_proba did when it was called
  feature_vector,            \* the feature vector built for it
  unit                       \* a method of a checker called on its own, with what it returned

vars == <<pc, bundle, final_augmented_checker, columbia_checker, legacy_checker,
          symptom_checker, assigned, routed, request, response, active, invoked,
          classifier, feature_vector, unit>>

globals == <<final_augmented_checker, columbia_checker, legacy_checker, symptom_checker, assigned>>
perRequest == <<request, response, active, invoked, classifier, feature_vector>>

NoRequest == [endpoint |-> "none", hasKey |-> FALSE, symptoms |-> <<>>]
NoResult == [kind |-> "none", predictions |-> <<>>, model_info |-> NoneStr,
             error |-> NoneStr, total_symptoms |-> -1, processed_symptoms |-> -1]
NoResponse == [status |-> 0, raised |-> NoneStr, result |-> NoResult]
NoOutcome == [raises |-> FALSE, proba |-> <<>>]
NoCall == [fn |-> "none"]

Init ==
  /\ pc = "init_final_augmented"
  /\ bundle \in Bundles
  /\ final_augmented_checker = "unset"
  /\ columbia_checker = "unset"
  /\ legacy_checker = "unset"
  /\ symptom_checker = "unset"
  /\ assigned = [t \in Tiers |-> 0]
  /\ routed = {}
  /\ request = NoRequest
  /\ response = NoResponse
  /\ active = "none"
  /\ invoked = FALSE
  /\ classifier = NoOutcome
  /\ feature_vector = NoVector
  /\ unit = NoCall

(***************************************************************************)
(* Module-level initialisation of app.py                                   *)
(***************************************************************************)
\* FinalAugmentedMLSymptomChecker(): _load_model re-raises what open, pickle.load, the
\* bundle's keys or the formatting of metadata['test_accuracy'] raise
FinalConstructs(b) == b = "ok"
ColumbiaConstructs(b) == b = "ok"
LegacyConstructs(b) == b = "ok"

\* A variant without the try/except: a failing constructor ends the module body.
InitFinalAugmentedUncaught ==
  /\ pc = "init_final_augmented"
  /\ final_augmented_checker' =
       IF FinalConstructs(bundle.final_augmented) THEN "obj" ELSE final_augmented_checker
  /\ assigned' = IF FinalConstructs(bundle.final_augmented)
                   THEN [assigned EXCEPT !["final_augmented"] = @ + 1] ELSE assigned
  /\ pc' = IF FinalConstructs(bundle.final_augmented) THEN "init_columbia" ELSE "fatal"
  /\ UNCHANGED <<bundle, columbia_checker, legacy_checker, symptom_checker, routed, perRequest, unit>>

InitFinalAugmented ==
  /\ pc = "init_final_augmented"
  /\ final_augmented_checker' = IF FinalConstructs(bundle.final_augmented) THEN "obj" ELSE "None"
  /\ assigned' = [assigned EXCEPT !["final_augmented"] = @ + 1]
  /\ pc' = "init_columbia"
  /\ UNCHANGED <<bundle, columbia_checker, legacy_checker, symptom_checker, routed, perRequest, unit>>

InitColumbia ==
  /\ pc = "init_columbia"
  /\ columbia_checker' = IF ColumbiaConstructs(bundle.columbia) THEN "obj" ELSE "None"
  /\ assigned' = [assigned EXCEPT !["columbia"] = @ + 1]
  /\ pc' = "init_legacy"
  /\ UNCHANGED <<bundle, final_augmented_checker, legacy_checker, symptom_checker, routed, perRequest, unit>>

InitLegacy ==
  /\ pc = "init_legacy"
  /\ legacy_checker' = IF LegacyConstructs(bundle.legacy) THEN "obj" ELSE "None"
  /\ assigned' = [assigned EXCEPT !["legacy"] = @ + 1]
  /\ pc' = "select"
  /\ UNCHANGED <<bundle, final_augmented_checker, columbia_checker, symptom_checker, routed, perRequest, unit>>

\* A variant that prefers the later tiers: legacy_checker or columbia_checker or
\* final_augmented_checker.
FirstCheckerLegacyFirst(f, c, l) ==
  IF l = "obj" THEN "legacy"
  ELSE IF c = "obj" THEN "columbia"
  ELSE IF f = "obj" THEN "final_augmented"
  ELSE "None"

\* final_augmented_checker or columbia_checker or legacy_checker
FirstChecker(f, c, l) ==
  IF f = "obj" THEN "final_augmented"
  ELSE IF c = "obj" THEN "columbia"
  ELSE IF l = "obj" THEN "legacy"
  ELSE "None"

\* A variant without the RuntimeError: the process serves whatever was loaded.
SelectSymptomCheckerLazy ==
  /\ pc = "select"
  /\ symptom_checker' = FirstChecker(final_augmented_checker, columbia_checker, legacy_checker)
  /\ pc' = "serving"
  /\ UNCHANGED <<bundle, final_augmented_checker, columbia_checker, legacy_checker,
                 assigned, routed, perRequest, unit>>

\* symptom_checker = ...; if not symptom_checker: raise RuntimeError
SelectSymptomChecker ==
  /\ pc = "select"
  /\ symptom_checker' = FirstChecker(final_augmented_checker, columbia_checker, legacy_checker)
  /\ pc' = IF symptom_checker' = "None" THEN "fatal" ELSE "serving"
  /\ UNCHANGED <<bundle, final_augmented_checker, columbia_checker, legacy_checker,
                 assigned, routed, perRequest, unit>>


(***************************************************************************)
(* Request handlers of app.py.  A handler has no await in it: it runs to   *)
(* its return without another handler running in between.                 *)
(***************************************************************************)
\* the outcome of a handler that called no checker method
Rejected(status, raised) ==
  [status |-> status, raised |-> raised, result |-> NoResult,
   active |-> "none", called |-> FALSE, fv |-> NoVector]

\* the outcome of a handler whose try block called a method of tier (m is what the
\* method handed back): an exception that escapes the method becomes a 500
Returned(tier, m) ==
  [status |-> IF m.raised = NoneStr THEN 200 ELSE 500,
   raised |-> m.raised,
   result |-> IF m.raised = NoneStr THEN m.result ELSE NoResult,
   active |-> tier, called |-> m.called, fv |-> m.fv]

\* active_checker.predict_diseases_enhanced(symptoms): every checker class has the method
CallPredictDiseasesEnhanced(tier, symptoms, cls) ==
  IF tier = "final_augmented" THEN FinalPredictDiseasesEnhanced(symptoms, cls, DefaultTopK)
  ELSE IF tier = "columbia" THEN ColumbiaPredictDiseasesEnhanced(symptoms, cls, DefaultTopK)
  ELSE LegacyPredictDiseasesEnhanced(symptoms, cls, DefaultTopK, FALSE)

\* predict_diseases_legacy where the class has it, analyze otherwise
CallStringFormat(tier, symptoms, cls) ==
  IF tier = "final_augmented" THEN FinalPredictDiseasesLegacy(symptoms, cls)
  ELSE IF tier = "columbia" THEN ColumbiaPredictDiseasesLegacy(symptoms, cls)
  ELSE LegacyAnalyze(symptoms, cls, DefaultTopK)

\* the try block of predict_symptoms; every exception raised in it, the
\* HTTPException(400) included, is caught by "except Exception" and becomes a 500
PredictSymptomsOutcome(req, cls) ==
  LET symptoms == req.symptoms
      active_checker == FirstChecker(final_augmented_checker, columbia_checker, legacy_checker)
  IN  IF Len(symptoms) = 0 THEN Rejected(500, "NO_SYMPTOMS")
      ELSE IF symptoms[1].dict
        THEN Returned(active_checker, CallPredictDiseasesEnhanced(active_checker, symptoms, cls))
        ELSE Returned(active_checker, CallStringFormat(active_checker, symptoms, cls))

\* symptom['severity'] = 'moderate' and symptom['duration'] = '1 week' where missing
SetDefaults(symptoms) ==
  [i \in 1..Len(symptoms) |->
     [symptoms[i] EXCEPT !.severity = Get(symptoms[i].severity, "moderate"),
                         !.duration = Get(symptoms[i].duration, "1 week")]]

PredictSymptomsEnhancedOutcome(req, cls) ==
  LET symptoms == req.symptoms
      bad == FirstIndex(symptoms, LAMBDA symptom : ~symptom.dict \/ symptom.name = Absent)
      active_checker == FirstChecker(final_augmented_checker, columbia_checker, legacy_checker)
  IN  IF Len(symptoms) = 0 THEN Rejected(500, "NO_SYMPTOMS")
      ELSE IF bad # 0 /\ ~symptoms[bad].dict THEN Rejected(500, "NOT_AN_OBJECT")
      ELSE IF bad # 0 THEN Rejected(500, "MISSING_NAME")
      ELSE Returned(active_checker,
                    CallPredictDiseasesEnhanced(active_checker, SetDefaults(symptoms), cls))

\* predict_with_final_augmented, predict_with_columbia, predict_with_legacy: the 503 is
\* raised before the try block
DirectOutcome(tier, checker, req, cls) ==
  LET symptoms == req.symptoms
  IN  IF checker # "obj" THEN Rejected(503, "UNAVAILABLE")
      ELSE IF Len(symptoms) = 0 THEN Rejected(500, "NO_SYMPTOMS")
      ELSE IF symptoms[1].dict
        THEN Returned(tier, IF tier = "legacy"
                              THEN LegacyAnalyzeEnhanced(symptoms, cls, DefaultTopK)
                              ELSE CallPredictDiseasesEnhanced(tier, symptoms, cls))
        ELSE Returned(tier, CallStringFormat(tier, symptoms, cls))

\* result['recommendation_summary'] of analyze_symptoms: analyze's dict has no such key
AnalyzeSymptomsReturn(m) ==
  IF m.raised # NoneStr THEN Returned("legacy", m)
  ELSE Returned("legacy", [m EXCEPT !.raised = "KeyError"])

\* analyze_symptoms (/api/symptom-check), for a request that passed get_api_key
AnalyzeSymptomsOutcome(req, cls) ==
  IF symptom_checker # "legacy"
    THEN Rejected(500, "AttributeError")       \* the class has no analyze
    ELSE AnalyzeSymptomsReturn(LegacyAnalyze(req.symptoms, cls, DefaultTopK))

\* the server takes a request once the module body has run
Serving == pc = "serving" /\ request = NoRequest

\* A variant that marks the tier it called unavailable when the request failed.
HandleDisabling(endpoint, req, cls, out) ==
  /\ request' = [endpoint |-> endpoint, hasKey |-> req.hasKey, symptoms |-> req.symptoms]
  /\ response' = [status |-> out.status, raised |-> out.raised, result |-> out.result]
  /\ active' = out.active
  /\ invoked' = out.called
  /\ classifier' = IF out.called THEN cls ELSE NoOutcome
  /\ feature_vector' = out.fv
  /\ legacy_checker' = IF out.status = 500 /\ out.active = "legacy" THEN "None" ELSE legacy_checker
  /\ UNCHANGED <<pc, bundle, final_augmented_checker, columbia_checker, symptom_checker, assigned,
                 unit>>

\* A variant in which a direct endpoint leaves the tier it called as the routed tier.
HandleSwitching(endpoint, req, cls, out) ==
  /\ request' = [endpoint |-> endpoint, hasKey |-> req.hasKey, symptoms |-> req.symptoms]
  /\ response' = [status |-> out.status, raised |-> out.raised, result |-> out.result]
  /\ active' = out.active
  /\ invoked' = out.called
  /\ classifier' = IF out.called THEN cls ELSE NoOutcome
  /\ feature_vector' = out.fv
  /\ symptom_checker' = IF out.active = "none" THEN symptom_checker ELSE out.active
  /\ UNCHANGED <<pc, bundle, final_augmented_checker, columbia_checker, legacy_checker, assigned,
                 unit>>

\* the state a handler leaves behind; cls is what predict_proba does if it is called
Handle(endpoint, req, cls, out) ==
  /\ request' = [endpoint |-> endpoint, hasKey |-> req.hasKey, symptoms |-> req.symptoms]
  /\ response' = [status |-> out.status, raised |-> out.raised, result |-> out.result]
  /\ active' = out.active
  /\ invoked' = out.called
  /\ classifier' = IF out.called THEN cls ELSE NoOutcome
  /\ feature_vector' = out.fv
  /\ UNCHANGED <<pc, bundle, globals, unit>>

\* a handler of the routing endpoints: the tier it called joins routed
HandleRouted(endpoint, req, cls, out) ==
  /\ Handle(endpoint, req, cls, out)
  /\ routed' = IF out.active = "none" THEN routed ELSE routed \cup {out.active}

predict_symptoms ==
  /\ Serving
  /\ \E req \in Requests, cls \in ClassifierOutcomes :
      HandleRouted("/predict_symptom", req, cls, PredictSymptomsOutcome(req, cls))

predict_symptoms_enhanced ==
  /\ Serving
  /\ \E req \in Requests, cls \in ClassifierOutcomes :
      HandleRouted("/predict_symptom_enhanced", req, cls,
                   PredictSymptomsEnhancedOutcome(req, cls))

predict_with_final_augmented ==
  /\ Serving
  /\ \E req \in Requests, cls \in ClassifierOutcomes :
      /\ Handle("/predict_final_augmented", req, cls,
                DirectOutcome("final_augmented", final_augmented_checker, req, cls))
      /\ UNCHANGED routed

predict_with_columbia ==
  /\ Serving
  /\ \E req \in Requests, cls \in ClassifierOutcomes :
      /\ Handle("/predict_columbia", req, cls,
                DirectOutcome("columbia", columbia_checker, req, cls))
      /\ UNCHANGED routed

predict_with_legacy ==
  /\ Serving
  /\ \E req \in Requests, cls \in ClassifierOutcomes :
      /\ Handle("/predict_legacy", req, cls,
                DirectOutcome("legacy", legacy_checker, req, cls))
      /\ UNCHANGED routed

analyze_symptoms ==
  /\ Serving
  /\ \E req \in Requests, cls \in ClassifierOutcomes :
      /\ Handle("/api/symptom-check", req, cls, AnalyzeSymptomsOutcome(req, cls))
      /\ UNCHANGED routed

\* "primary_model" of root: the first of the three checkers that is set
RootPrimaryModel(f, c, l) ==
  IF f = "obj" THEN "final_augmented" ELSE IF c = "obj" THEN "columbia" ELSE "legacy"

\* info["primary_model"] behind the columbia block of get_model_info, p being its value
\* behind the final_augmented block: the columbia block assigns it unconditionally
ModelInfoAfterColumbia(p, c) == IF c = "obj" THEN "columbia" ELSE p

\* ... and behind the legacy block, which assigns it only while it is still None
ModelInfoAfterLegacy(p, l) == IF l = "obj" /\ p = NoneStr THEN "legacy" ELSE p

\* info["primary_model"] as get_model_info returns it; get_model_info of a loaded
\* checker does not raise
ModelInfoPrimaryModel(f, c, l) ==
  ModelInfoAfterLegacy(
    ModelInfoAfterColumbia(IF f = "obj" THEN "final_augmented" ELSE NoneStr, c), l)

\* the outcome of an information endpoint: a 200 whose body names the primary model
Informed(primary_model) ==
  [status |-> 200, raised |-> NoneStr,
   result |-> [kind |-> "info", predictions |-> <<>>, model_info |-> NoneStr, error |-> NoneStr,
               total_symptoms |-> -1, processed_symptoms |-> -1,
               primary_model |-> primary_model],
   active |-> "none", called |-> FALSE, fv |-> NoVector]

\* GET /
root ==
  /\ Serving
  /\ Handle("/", [hasKey |-> FALSE, symptoms |-> <<>>], NoOutcome,
            Informed(RootPrimaryModel(final_augmented_checker, columbia_checker, legacy_checker)))
  /\ UNCHANGED routed

\* GET /model_info
get_model_info ==
  /\ Serving
  /\ Handle("/model_info", [hasKey |-> FALSE, symptoms |-> <<>>], NoOutcome,
            Informed(ModelInfoPrimaryModel(final_augmented_checker, columbia_checker,
                                           legacy_checker)))
  /\ UNCHANGED routed

\* the response has been sent; what belonged to the request is dropped
Reply ==
  /\ pc = "serving"
  /\ request # NoRequest
  /\ request' = NoRequest
  /\ response' = NoResponse
  /\ active' = "none"
  /\ invoked' = FALSE
  /\ classifier' = NoOutcome
  /\ feature_vector' = NoVector
  /\ UNCHANGED <<pc, bundle, globals, routed, unit>>

Next ==
  \/ InitFinalAugmented
  \/ InitColumbia
  \/ InitLegacy
  \/ SelectSymptomChecker
  \/ predict_symptoms
  \/ predict_symptoms_enhanced
  \/ predict_with_final_augmented
  \/ predict_with_columbia
  \/ predict_with_legacy
  \/ analyze_symptoms
  \/ root
  \/ get_model_info
  \/ Reply

Spec == Init /\ [][Next]_vars

(***************************************************************************)
(* The checkers' methods called on their own, on checkers whose bundles    *)
(* loaded: the normalisers, the weight functions, the feature builders and *)
(* the prediction methods with a top_k of the caller's choice.             *)
(***************************************************************************)
\* symptom names handed to the normalisers: the vocabulary entries of the three
\* tiers, other spellings of them, and names no tier knows
NormalizeInputs ==
  { FinalFeatureColumns[i] : i \in 1..Len(FinalFeatureColumns) }
    \cup { ColumbiaFeatureColumns[i] : i \in 1..Len(ColumbiaFeatureColumns) }
    \cup { LegacySymptomColumns[i] : i \in 1..Len(LegacySymptomColumns) }
    \cup { "Fever", " FEVER ", "fever high", "high temperature", "High-Fever", "Pain_Chest",
           "chest pain", "diarrhea", "zzz", "" }

\* base weights a mapping file may carry, in thousandths
BaseWeights == {0, 500, 1000, 2500, 4000, 9000}

\* one symptom object for every name, severity and duration
UnitObjects ==
  { Obj(n, sv, d) : n \in {"fever", "cough", "zzz"}, sv \in SeverityValues, d \in DurationValues }

\* feature_columns / symptom_columns of a tier
Vocabulary(tier) ==
  IF tier = "final_augmented" THEN FinalFeatureColumns
  ELSE IF tier = "columbia" THEN ColumbiaFeatureColumns
  ELSE LegacySymptomColumns

\* normalize_symptom_name / _normalize_symptom of a tier
Normalize(tier, symptom) ==
  IF tier = "final_augmented" THEN FinalNormalizeSymptomName(symptom)
  ELSE IF tier = "columbia" THEN ColumbiaNormalizeSymptomName(symptom)
  ELSE LegacyNormalizeSymptom(symptom)

\* the normaliser applied to what it returned; None is handed on as it is
NormalizeAgain(tier, normalized) ==
  IF normalized = NoneStr THEN NoneStr ELSE Normalize(tier, normalized)

\* _create_feature_vector_enhanced of a tier: the feature vector it returns
CreateFeatureVectorEnhanced(tier, symptom_objects) ==
  IF tier = "final_augmented"
    THEN FinalCreateFeatureVectorEnhanced(symptom_objects, FinalEmptyVector).fv
  ELSE IF tier = "columbia"
    THEN ColumbiaCreateFeatureVectorEnhanced(symptom_objects,
           [i \in 1..Len(ColumbiaFeatureColumns) |-> 0])
  ELSE LegacyCreateFeatureVectorEnhanced(symptom_objects,
         [i \in 1..Len(LegacySymptomColumns) |-> 0])

(***************************************************************************)
(* The rule-based SymptomChecker (services/symptom_checker.py): no trained *)
(* model, a weighted overlap of the user's symptoms with every disease of  *)
(* a mapping file.  Scores are exact fractions [num, den].                 *)
(***************************************************************************)
\* _normalize_symptom
RuleNormalizeSymptom(symptom) ==
  StrReplace(StrReplace(StrLower(StrStrip(symptom)), " ", "_"), "-", "_")

\* self.symptom_weights as _load_symptom_weights builds it from symptom_severity.csv
RuleSymptomWeights ==
  [s \in {"itching", "skin_rash", "nodal_skin_eruptions", "vomiting", "fatigue",
          "yellowish_skin", "dark_urine", "nausea", "loss_of_appetite", "abdominal_pain",
          "yellowing_of_eyes", "malaise", "mild_fever", "joint_pain", "muscle_pain"} |->
     CASE s = "itching" -> 1
       [] s \in {"skin_rash", "yellowish_skin", "joint_pain", "muscle_pain"} -> 3
       [] s \in {"nodal_skin_eruptions", "fatigue", "dark_urine", "loss_of_appetite",
                 "abdominal_pain", "yellowing_of_eyes"} -> 4
       [] s \in {"vomiting", "nausea", "mild_fever"} -> 5
       [] OTHER -> 6]

\* the weight of symptoms the file does not list
RuleDefaultWeight == 2

\* self.symptom_weights.get(s, 2.0)
RuleWeight(s) ==
  IF s \in DOMAIN RuleSymptomWeights THEN RuleSymptomWeights[s] ELSE RuleDefaultWeight

\* self.disease_data as _load_disease_mapping reads it from symptom_disease_mapping.json
RuleDiseaseData ==
  << [name |-> "Fungal infection",
      symptoms |-> <<"itching", "skin rash", "nodal skin eruptions">>],
     [name |-> "Hepatitis",
      symptoms |-> <<"itching", "vomiting", "fatigue", "yellowish skin", "dark urine",
                     "nausea", "loss of appetite", "abdominal pain", "yellowing of eyes",
                     "malaise", "mild fever", "joint pain", "muscle pain">>],
     [name |-> "Gastroenteritis",
      symptoms |-> <<"vomiting", "sunken-eyes", "dehydration", "diarrhoea">>],
     [name |-> "Unspecified",
      symptoms |-> <<>>] >>

\* set([self._normalize_symptom(s) for s in symptoms])
RuleSymptomSet(symptoms) == { RuleNormalizeSymptom(symptoms[i]) : i \in 1..Len(symptoms) }

RECURSIVE RuleTotalWeight(_)
\* sum([self.symptom_weights.get(s, 2.0) for s in symptom_set])
RuleTotalWeight(symptom_set) ==
  IF symptom_set = {} THEN 0
  ELSE LET s == CHOOSE x \in symptom_set : TRUE
       IN  RuleWeight(s) + RuleTotalWeight(symptom_set \ {s})

RuleZero == [num |-> 0, den |-> 1]

\* A variant with the two coefficients exchanged.
RuleProbabilityExchanged(match_score, user_total_score, disease_total_score, matched, size) ==
  IF user_total_score + disease_total_score = 0 THEN RuleZero
  ELSE [num |-> 6 * match_score * size + 7 * matched * (user_total_score + disease_total_score),
        den |-> 10 * (user_total_score + disease_total_score) * size]

\* probability * 0.7 + coverage_bonus * 0.3 of _calculate_match_probability, with
\* probability = 2 * match_score / (user_total_score + disease_total_score) and
\* coverage_bonus = matched / size, as one fraction
RuleProbability(match_score, user_total_score, disease_total_score, matched, size) ==
  IF user_total_score + disease_total_score = 0 THEN RuleZero
  ELSE [num |-> 14 * match_score * size + 3 * matched * (user_total_score + disease_total_score),
        den |-> 10 * (user_total_score + disease_total_score) * size]

\* min(probability, 1.0)
RuleMinOne(probability) ==
  IF probability.num > probability.den THEN [num |-> 1, den |-> 1] ELSE probability

\* _calculate_match_probability on the two normalised sets
RuleMatchOfSets(user_set, disease_set) ==
  IF user_set \cap disease_set = {} THEN RuleZero
  ELSE RuleMinOne(RuleProbability(RuleTotalWeight(user_set \cap disease_set),
                                  RuleTotalWeight(user_set), RuleTotalWeight(disease_set),
                                  Cardinality(user_set \cap disease_set),
                                  Cardinality(disease_set)))

\* _calculate_match_probability
RuleCalculateMatchProbability(user_symptoms, disease_symptoms) ==
  RuleMatchOfSets(RuleSymptomSet(user_symptoms), RuleSymptomSet(disease_symptoms))

\* probability > 0.05
RuleAboveThreshold(probability) == 20 * probability.num > probability.den

\* round(probability, 3) in thousandths: the nearest thousandth, the even one of two
\* that are equally near
RuleRound3(probability) ==
  LET q == (1000 * probability.num) \div probability.den
      r == (1000 * probability.num) % probability.den
  IN  IF 2 * r > probability.den THEN q + 1
      ELSE IF 2 * r < probability.den THEN q
      ELSE IF q % 2 = 0 THEN q ELSE q + 1

\* the entry predict_diseases appends for a disease
RulePrediction(disease, symptoms, probability) ==
  [disease |-> disease.name,
   confidence |-> RuleRound3(probability),
   matching_symptoms |->
     Cardinality(RuleSymptomSet(symptoms) \cap RuleSymptomSet(disease.symptoms))]

RECURSIVE RuleAppendAll(_, _)
\* the loop of predict_diseases over self.disease_data
RuleAppendAll(diseases, symptoms) ==
  IF Len(diseases) = 0 THEN <<>>
  ELSE (IF RuleAboveThreshold(RuleCalculateMatchProbability(symptoms, Head(diseases).symptoms))
          THEN << RulePrediction(Head(diseases), symptoms,
                    RuleCalculateMatchProbability(symptoms, Head(diseases).symptoms)) >>
          ELSE <<>>)
       \o RuleAppendAll(Tail(diseases), symptoms)

\* predict_diseases
RulePredictDiseases(symptoms, top_n) ==
  IF Len(symptoms) = 0 THEN <<>>
  ELSE Take(SortDesc(RuleAppendAll(RuleDiseaseData, symptoms)), top_n)

\* symptoms a caller of the rule-based checker reports
RuleSymptomInputs == {"itching", " Skin Rash", "nodal-skin-eruptions", "vomiting", "zzz"}

\* the lists of at most two reported symptoms, a symptom reported twice included
RuleSymptomLists ==
  {<<>>} \cup { <<a>> : a \in RuleSymptomInputs }
         \cup { <<a, b>> : a \in RuleSymptomInputs, b \in RuleSymptomInputs }

\* the values of top_n: a caller's 1 and the default
RuleTopN == {1, DefaultTopK}

\* the three checkers constructed from bundles that load, no server started
UnitInit ==
  /\ pc = "unit"
  /\ bundle = [final_augmented |-> "ok", columbia |-> "ok", legacy |-> "ok"]
  /\ final_augmented_checker = "obj"
  /\ columbia_checker = "obj"
  /\ legacy_checker = "obj"
  /\ symptom_checker = "unset"
  /\ assigned = [t \in Tiers |-> 0]
  /\ routed = {}
  /\ request = NoRequest
  /\ response = NoResponse
  /\ active = "none"
  /\ invoked = FALSE
  /\ classifier = NoOutcome
  /\ feature_vector = NoVector
  /\ unit = NoCall

normalize_symptom_name ==
  /\ pc = "unit" /\ unit = NoCall
  /\ \E tier \in Tiers, symptom \in NormalizeInputs :
       unit' = [fn |-> "normalize_symptom_name", tier |-> tier, symptom |-> symptom,
                result |-> Normalize(tier, symptom),
                again |-> NormalizeAgain(tier, Normalize(tier, symptom))]
  /\ UNCHANGED <<pc, bundle, globals, routed, perRequest>>

calculate_weight ==
  /\ pc = "unit" /\ unit = NoCall
  /\ \E tier \in {"final_augmented", "columbia"}, base_weight \in BaseWeights,
        severity \in SeverityValues, duration \in DurationValues :
       unit' = [fn |-> "calculate_weight", tier |-> tier, base_weight |-> base_weight,
                severity |-> severity, duration |-> duration,
                result |-> IF tier = "final_augmented"
                             THEN FinalEnhancementWeight(base_weight, severity, duration)
                             ELSE ColumbiaSymptomWeight(base_weight, severity, duration)]
  /\ UNCHANGED <<pc, bundle, globals, routed, perRequest>>

create_feature_vector_enhanced ==
  /\ pc = "unit" /\ unit = NoCall
  /\ \E tier \in Tiers, symptom_obj \in UnitObjects :
       unit' = [fn |-> "create_feature_vector_enhanced", tier |-> tier,
                symptom_obj |-> symptom_obj,
                fv |-> CreateFeatureVectorEnhanced(tier, <<symptom_obj>>)]
  /\ UNCHANGED <<pc, bundle, globals, routed, perRequest>>

\* SymptomChecker.predict_diseases called on its own; scores holds what
\* _calculate_match_probability returned for each disease of the mapping
predict_diseases ==
  /\ pc = "unit" /\ unit = NoCall
  /\ \E symptoms \in RuleSymptomLists, top_n \in RuleTopN :
       unit' = [fn |-> "predict_diseases", symptoms |-> symptoms, top_n |-> top_n,
                scores |-> [k \in 1..Len(RuleDiseaseData) |->
                              RuleCalculateMatchProbability(symptoms,
                                                            RuleDiseaseData[k].symptoms)],
                result |-> RulePredictDiseases(symptoms, top_n)]
  /\ UNCHANGED <<pc, bundle, globals, routed, perRequest>>

\* the symptom lists handed to predict_diseases_enhanced: one, two and three symptoms
EnhancedInputs ==
  { <<Obj("fever", "mild", "1 day")>>,
    <<Obj("fever", "mild", "1 day"), Obj("cough", "severe", "2+ weeks")>>,
    <<Obj("fever", "mild", "1 day"), Obj("cough", "severe", "2+ weeks"),
      Obj("zzz", "moderate", "1 week")>> }

\* the values of top_k / top_n: a caller's 1 and 2 and the default
TopKValues == {1, 2, DefaultTopK}

\* predict_diseases_enhanced of a tier
PredictDiseasesEnhanced(tier, symptom_objects, cls, top_k) ==
  IF tier = "final_augmented" THEN FinalPredictDiseasesEnhanced(symptom_objects, cls, top_k)
  ELSE IF tier = "columbia" THEN ColumbiaPredictDiseasesEnhanced(symptom_objects, cls, top_k)
  ELSE LegacyPredictDiseasesEnhanced(symptom_objects, cls, top_k, FALSE)

\* predict_diseases_enhanced called on its own with a top_k of the caller's choice
predict_diseases_enhanced ==
  /\ pc = "unit" /\ unit = NoCall
  /\ \E tier \in Tiers, symptom_objects \in EnhancedInputs, top_k \in TopKValues,
        cls \in ClassifierOutcomes :
       unit' = [fn |-> "predict_diseases_enhanced", tier |-> tier,
                symptom_objects |-> symptom_objects, top_k |-> top_k, cls |-> cls,
                predictions |->
                  PredictDiseasesEnhanced(tier, symptom_objects, cls, top_k).result.predictions]
  /\ UNCHANGED <<pc, bundle, globals, routed, perRequest>>

\* the caller has taken the value
UnitReturn ==
  /\ pc = "unit" /\ unit # NoCall
  /\ unit' = NoCall
  /\ UNCHANGED <<pc, bundle, globals, routed, perRequest>>

UnitNext ==
  \/ normalize_symptom_name
  \/ calculate_weight
  \/ create_feature_vector_enhanced
  \/ predict_diseases
  \/ predict_diseases_enhanced
  \/ UnitReturn

UnitSpec == UnitInit /\ [][UnitNext]_vars

(***************************************************************************)
(* Properties                                                              *)
(***************************************************************************)
RoutingEndpoints == {"/predict_symptom", "/predict_symptom_enhanced"}
PredictionEndpoints ==
  RoutingEndpoints \cup {"/predict_final_augmented", "/predict_columbia", "/predict_legacy",
                         "/api/symptom-check"}
Handled == request # NoRequest
Predictions == response.result.predictions

\* C1: every prediction of a response has a confidence between 0 and 0.85,
\* whichever tier produced it.
CeilingInvariant ==
  \A i \in 1..Len(Predictions) :
    Predictions[i].confidence >= 0 /\ Predictions[i].confidence <= 850000

\* C2: a request of /predict_symptom or /predict_symptom_enhanced that reaches a tier
\* reaches the first available one in the order final_augmented, columbia, legacy:
\* the tier that handles it is available and every tier before it is not, and the
\* dict the tier returns carries that tier's own model_info.
TierRouting ==
  (request.endpoint \in RoutingEndpoints /\ active # "none") =>
    /\ active \in Tiers
    /\ active = "final_augmented" => final_augmented_checker = "obj"
    /\ active = "columbia" => final_augmented_checker = "None" /\ columbia_checker = "obj"
    /\ active = "legacy" =>
         final_augmented_checker = "None" /\ columbia_checker = "None" /\ legacy_checker = "obj"
    /\ (response.status = 200 /\ response.result.kind = "dict") =>
         response.result.model_info =
           (IF final_augmented_checker = "obj" THEN "final_augmented_enhanced"
            ELSE IF columbia_checker = "obj" THEN "columbia_enhanced"
            ELSE "ml_enhanced")

\* a routed request served by the secondary tier while the primary is unavailable
TierRoutingWitness ==
  /\ request.endpoint \in RoutingEndpoints
  /\ active = "columbia"
  /\ invoked
  /\ final_augmented_checker = "None"
  /\ legacy_checker = "obj"

\* C3: a successful response of /predict_symptom and /predict_symptom_enhanced is an
\* object with a predictions list, whichever tier served it and in both input formats.
TransparentFallback ==
  (request.endpoint \in RoutingEndpoints /\ response.status = 200) =>
    response.result.kind = "dict"

\* C4: once a tier's constructor has been tried, its global says whether that tier's
\* own load succeeded, whatever the other tiers did; startup ends fatally only when
\* no tier loaded.
StartupIsolation ==
  /\ pc \in {"init_columbia", "init_legacy", "select", "serving", "fatal"} =>
       final_augmented_checker =
         (IF FinalConstructs(bundle.final_augmented) THEN "obj" ELSE "None")
  /\ pc \in {"init_legacy", "select", "serving", "fatal"} =>
       columbia_checker = (IF ColumbiaConstructs(bundle.columbia) THEN "obj" ELSE "None")
  /\ pc \in {"select", "serving", "fatal"} =>
       legacy_checker = (IF LegacyConstructs(bundle.legacy) THEN "obj" ELSE "None")
  /\ pc = "fatal" =>
       /\ ~FinalConstructs(bundle.final_augmented)
       /\ ~ColumbiaConstructs(bundle.columbia)
       /\ ~LegacyConstructs(bundle.legacy)

\* the primary and the fallback failed to load, the secondary loaded, the process serves
StartupIsolationWitness ==
  /\ pc = "serving"
  /\ final_augmented_checker = "None"
  /\ columbia_checker = "obj"
  /\ legacy_checker = "None"

\* C5: when no tier loads, the process never serves: no request is ever taken, and
\* the fatal condition is reached with symptom_checker empty and no request handled.
NoBackendIsFatal ==
  /\ (/\ ~FinalConstructs(bundle.final_augmented)
      /\ ~ColumbiaConstructs(bundle.columbia)
      /\ ~LegacyConstructs(bundle.legacy)) =>
       pc # "serving" /\ ~Handled /\ routed = {}
  /\ pc = "fatal" => symptom_checker = "None" /\ ~Handled

\* startup has ended in the fatal condition
NoBackendWitness ==
  /\ pc = "fatal"
  /\ final_augmented_checker = "None"
  /\ columbia_checker = "None"
  /\ legacy_checker = "None"

\* C6, the state part: each checker global is assigned at most once, all of them
\* before the process serves; requests are taken only by a serving process, and all
\* requests of the routing endpoints went to one tier, the one selected at startup.
AvailabilityWrittenOnce ==
  /\ \A t \in Tiers : assigned[t] <= 1
  /\ pc \in {"select", "serving", "fatal"} => \A t \in Tiers : assigned[t] = 1
  /\ Handled => pc = "serving"
  /\ Cardinality(routed) <= 1
  /\ routed \subseteq {symptom_checker}

\* C6, the step part: once startup is over no step changes a checker global
AvailabilityNeverChanges ==
  pc \in {"serving", "fatal"} =>
    UNCHANGED <<final_augmented_checker, columbia_checker, legacy_checker,
                symptom_checker, assigned>>

\* C6: availability is written once, during startup and before any request, and
\* never changes afterwards; every routed request of the process goes to one tier.
AvailabilityFixed == []AvailabilityWrittenOnce /\ [][AvailabilityNeverChanges]_vars

\* a request handled by the fallback tier after an earlier routed request
AvailabilityFixedWitness ==
  /\ pc = "serving"
  /\ routed = {"legacy"}
  /\ request.endpoint = "/predict_legacy"
  /\ response.status = 500

\* C7: a request whose symptoms list is empty or absent is answered with the
\* no-symptoms input error and no predict_proba call, on every prediction endpoint
\* and in every availability configuration (a direct endpoint whose own tier is not
\* loaded, which answers 503 to every request, left aside).
EmptyInputRejected ==
  (/\ request.endpoint \in PredictionEndpoints
   /\ Len(request.symptoms) = 0
   /\ response.status # 503) =>
    response.raised = "NO_SYMPTOMS" /\ ~invoked

Nameless(symptoms) ==
  \E i \in 1..Len(symptoms) : symptoms[i].dict /\ symptoms[i].name = Absent

\* C8: a request with a symptom object that has no name is rejected with the
\* missing-name input error before any tier is called, on every prediction endpoint,
\* and no slot of a feature vector is set for it.
MalformedRejected ==
  (Handled /\ Nameless(request.symptoms)) =>
    /\ response.raised = "MISSING_NAME"
    /\ active = "none"
    /\ ~invoked
    /\ SumSeq(feature_vector) = 0

\* the request with every symptom written out as {name, severity, duration}, the
\* omitted severity being moderate and the omitted duration 1 week
WithDefaults(symptoms) ==
  [i \in 1..Len(symptoms) |->
     Obj(symptoms[i].name, Get(symptoms[i].severity, "moderate"),
         Get(symptoms[i].duration, "1 week"))]

\* what the handler of an endpoint does with a request
OutcomeOf(endpoint, req, cls) ==
  IF endpoint = "/predict_symptom" THEN PredictSymptomsOutcome(req, cls)
  ELSE IF endpoint = "/predict_symptom_enhanced" THEN PredictSymptomsEnhancedOutcome(req, cls)
  ELSE IF endpoint = "/predict_final_augmented"
    THEN DirectOutcome("final_augmented", final_augmented_checker, req, cls)
  ELSE IF endpoint = "/predict_columbia" THEN DirectOutcome("columbia", columbia_checker, req, cls)
  ELSE IF endpoint = "/predict_legacy" THEN DirectOutcome("legacy", legacy_checker, req, cls)
  ELSE AnalyzeSymptomsOutcome(req, cls)

SameAsHandled(out) ==
  out.fv = feature_vector /\ out.result.predictions = Predictions

\* C9: the request as handled (plain strings, or objects that omit severity or
\* duration) has the feature vector and the predictions that the same endpoint gives,
\* for the same classifier output, to the request with moderate and 1 week written out.
DefaultEquivalence ==
  (Handled /\ invoked) =>
    SameAsHandled(OutcomeOf(request.endpoint,
                            [hasKey |-> TRUE, symptoms |-> WithDefaults(request.symptoms)],
                            classifier))

\* the request has one symptom and a tier's classifier has answered it
SingleSymptomServed ==
  /\ Handled
  /\ Len(request.symptoms) = 1
  /\ invoked
  /\ ~classifier.raises
  /\ response.status = 200

\* the raw probability the classifier gave a label
RawOf(classes, disease) ==
  classifier.proba[FirstIndex(classes, LAMBDA c : c = disease)]

\* no symptom of the request carries an enhancement weight above 1.5 or below 0.8
MidWeight == \A i \in 1..Len(feature_vector) :
               feature_vector[i] = 0 \/ (feature_vector[i] >= 800 /\ feature_vector[i] <= 1500)

Served ==
  /\ Handled
  /\ invoked
  /\ ~classifier.raises
  /\ response.status = 200

\* the label array of the tier that served the request
ServedClasses ==
  IF active = "final_augmented" THEN FinalClasses
  ELSE IF active = "columbia" THEN ColumbiaClasses
  ELSE LegacyClasses

\* a prediction that names a label of the serving tier (not a synthetic entry)
IsLabel(p) == InList(p.disease, ServedClasses)

\* the label is in the critical set of the serving tier
CriticalLabel(disease) ==
  IF active = "final_augmented" THEN FinalCritical[disease]
  ELSE IF active = "columbia" THEN disease \in ColumbiaHighSeverityDiseases
  ELSE LegacySerious[disease]

\* C11: with fewer than three symptoms a critical label comes back with its raw
\* confidence times 0.4, on top of the single-symptom factor (0.1 or 0.15) when there
\* is one symptom; a label that is not critical comes back without the 0.4: raw for
\* two symptoms, raw times the single-symptom factor (0.3 or 0.4) for one.  For the
\* final_augmented tier the symptom weights are taken between 0.8 and 1.5.
CriticalCorroboration ==
  (Served /\ Len(request.symptoms) < 3 /\ (active = "final_augmented" => MidWeight)) =>
    \A i \in 1..Len(Predictions) :
      IsLabel(Predictions[i]) =>
        /\ (CriticalLabel(Predictions[i].disease) /\ Len(request.symptoms) = 2) =>
             Predictions[i].confidence = Mul(RawOf(ServedClasses, Predictions[i].disease), 40)
        /\ (CriticalLabel(Predictions[i].disease) /\ Len(request.symptoms) = 1) =>
             \E single \in {10, 15} :
               Predictions[i].confidence
                 = Mul(Mul(RawOf(ServedClasses, Predictions[i].disease), single), 40)
        /\ (~CriticalLabel(Predictions[i].disease) /\ Len(request.symptoms) = 2) =>
             Predictions[i].confidence
               = Min(RawOf(ServedClasses, Predictions[i].disease), 850000)
        /\ (~CriticalLabel(Predictions[i].disease) /\ Len(request.symptoms) = 1) =>
             \E single \in {30, 40} :
               Predictions[i].confidence
                 = Mul(RawOf(ServedClasses, Predictions[i].disease), single)

\* the synthetic entries: they name no label of a tier
Synthetic(p) == p.disease \in {"General Medical Concern", "Insufficient Information"}

\* C12: no prediction of a 200 response, the synthetic entry aside, has a confidence
\* below 0.03, whichever tier produced it.
FloorInvariant ==
  (Handled /\ response.status = 200) =>
    \A i \in 1..Len(Predictions) :
      Synthetic(Predictions[i]) \/ Predictions[i].confidence >= 30000

\* the predictions are empty or the best label of the response is below 0.15
LowInformation(labels) == Len(labels) = 0 \/ labels[1].confidence < 150000

\* C13: when the labels of a served response are empty or the best of them is below
\* 0.15, the first entry of the response is a synthetic entry with confidence 0;
\* otherwise the response has no synthetic entry.
LowInformationSentinel ==
  Served =>
    IF LowInformation(SelectSeq(Predictions, LAMBDA p : ~Synthetic(p)))
      THEN /\ Len(Predictions) > 0
           /\ Synthetic(Predictions[1])
           /\ Predictions[1].confidence = 0
      ELSE \A i \in 1..Len(Predictions) : ~Synthetic(Predictions[i])

\* C14: a response that reports total_symptoms and processed_symptoms
\* (matched_symptoms on the legacy tier) reports the length of the request's list,
\* repeated entries counted, as the total, and a processed count between 0 and it.
ProcessedCountBound ==
  (Handled /\ response.status = 200 /\ response.result.total_symptoms # -1) =>
    /\ response.result.total_symptoms = Len(request.symptoms)
    /\ response.result.processed_symptoms >= 0
    /\ response.result.processed_symptoms <= response.result.total_symptoms

\* a list that names a known symptom twice and an unknown one once: three in total,
\* two of them processed
ProcessedCountWitness ==
  /\ Handled
  /\ response.status = 200
  /\ \E i, j \in 1..Len(request.symptoms) : i # j /\ request.symptoms[i].name = request.symptoms[j].name
  /\ response.result.total_symptoms = 3
  /\ response.result.processed_symptoms = 2

\* C15: a name that is exactly an entry of a tier's vocabulary is normalised by that
\* tier to an entry of the vocabulary, and normalising the result again returns it.
NormaliserIdempotence ==
  (unit.fn = "normalize_symptom_name" /\ InList(unit.symptom, Vocabulary(unit.tier))) =>
    /\ InList(unit.result, Vocabulary(unit.tier))
    /\ unit.again = unit.result

\* the columbia normaliser on its entry "pain chest", found by the case-variation lookup
NormaliserIdempotenceWitness ==
  /\ unit.fn = "normalize_symptom_name"
  /\ unit.tier = "columbia"
  /\ unit.symptom = "pain chest"
  /\ unit.result = "pain chest"
  /\ unit.again = "pain chest"

\* the stages of the final_augmented normaliser, for an input and a vocabulary entry
ExactStage(symptom, feature) == StrLower(feature) = StrLower(StrStrip(symptom))
SubstringStage(symptom, feature) ==
  \/ StrIn(StrLower(StrStrip(symptom)), StrLower(feature))
  \/ StrIn(StrLower(feature), StrLower(StrStrip(symptom)))
TokenStage(symptom, feature) ==
  StrWords(StrLower(StrStrip(symptom))) \cap StrWords(StrLower(feature)) # {}

\* C16: the final_augmented normaliser tries exact match, substring containment and
\* shared token in this order and stops at the first stage that succeeds: an input
\* equal to an entry apart from case returns that entry, whatever earlier entries
\* contain it; without an exact match the first entry in a containment with the input
\* is returned; without that the first entry sharing a token; and it returns None
\* only if every stage fails.  In every tier an input equal to a vocabulary entry
\* apart from case returns that entry.
NormaliserMatchOrder ==
  /\ (/\ unit.fn = "normalize_symptom_name"
      /\ \E i \in 1..Len(Vocabulary(unit.tier)) :
           StrLower(Vocabulary(unit.tier)[i]) = StrLower(unit.symptom)) =>
       StrLower(unit.result) = StrLower(unit.symptom)
  /\ (unit.fn = "normalize_symptom_name" /\ unit.tier = "final_augmented") =>
    IF \E i \in 1..Len(FinalFeatureColumns) : ExactStage(unit.symptom, FinalFeatureColumns[i])
      THEN unit.result # NoneStr /\ ExactStage(unit.symptom, unit.result)
    ELSE IF \E i \in 1..Len(FinalFeatureColumns) :
              SubstringStage(unit.symptom, FinalFeatureColumns[i])
      THEN unit.result =
             FinalFeatureColumns[FirstIndex(FinalFeatureColumns,
                                            LAMBDA f : SubstringStage(unit.symptom, f))]
    ELSE IF \E i \in 1..Len(FinalFeatureColumns) : TokenStage(unit.symptom, FinalFeatureColumns[i])
      THEN unit.result =
             FinalFeatureColumns[FirstIndex(FinalFeatureColumns,
                                            LAMBDA f : TokenStage(unit.symptom, f))]
    ELSE unit.result = NoneStr

\* "Fever" equals the entry "fever" apart from case; the earlier entry "high fever"
\* contains it and shares a token with it; "fever" is returned
NormaliserMatchOrderWitness ==
  /\ unit.fn = "normalize_symptom_name"
  /\ unit.tier = "final_augmented"
  /\ unit.symptom = "Fever"
  /\ SubstringStage(unit.symptom, FinalFeatureColumns[1])
  /\ TokenStage(unit.symptom, FinalFeatureColumns[1])
  /\ unit.result = "fever"

\* C17: the legacy builder writes (severityScore / 7.0) * durationMult into the slot
\* of a matched symptom, with mild 2.0, moderate 4.5, severe 7.0 and 1 day 0.7,
\* 2-3 days 1.0, 1 week 1.3, 2+ weeks 1.8, and does not clip it: severe with 2+ weeks
\* gives 1.8.  The slot is counted in 1/700.
TierAFeatureValue ==
  (/\ unit.fn = "create_feature_vector_enhanced"
   /\ unit.tier = "legacy"
   /\ unit.symptom_obj.name = "fever"
   /\ unit.symptom_obj.severity \in {"mild", "moderate", "severe"}
   /\ unit.symptom_obj.duration \in {"1 day", "2-3 days", "1 week", "2+ weeks"}) =>
    /\ unit.fv[1] =
         (CASE unit.symptom_obj.severity = "mild" -> 20
            [] unit.symptom_obj.severity = "moderate" -> 45
            [] unit.symptom_obj.severity = "severe" -> 70)
         * (CASE unit.symptom_obj.duration = "1 day" -> 7
              [] unit.symptom_obj.duration = "2-3 days" -> 10
              [] unit.symptom_obj.duration = "1 week" -> 13
              [] unit.symptom_obj.duration = "2+ weeks" -> 18)
    /\ (unit.symptom_obj.severity = "severe" /\ unit.symptom_obj.duration = "2+ weeks") =>
         unit.fv[1] = 1260

\* a severe symptom of 2+ weeks in the legacy builder: the slot holds 1.8
TierAFeatureValueWitness ==
  /\ unit.fn = "create_feature_vector_enhanced"
  /\ unit.tier = "legacy"
  /\ unit.symptom_obj = Obj("fever", "severe", "2+ weeks")
  /\ unit.fv = <<1260, 0, 0>>

\* C18: the columbia symptom weight lies in [1.0, 8.0] for every severity, duration
\* and base weight (mild, less than 1 week, base 4.0 gives 2.24); the slot the
\* final_augmented builder writes holds a weight in [0.5, 3.0] divided by 3.0, so
\* lies in [0.5/3.0, 1.0]; a builder writes the slot of a matched symptom and leaves
\* every other slot 0.
ClippedWeightRanges ==
  /\ (unit.fn = "calculate_weight" /\ unit.tier = "columbia") =>
       /\ unit.result >= 1000 /\ unit.result <= 8000
       /\ (/\ unit.severity = "mild"
           /\ unit.duration = "less than 1 week"
           /\ unit.base_weight = 4000) => unit.result = 2240
  /\ (unit.fn = "calculate_weight" /\ unit.tier = "final_augmented") =>
       unit.result >= 500 /\ unit.result <= 3000
  /\ (unit.fn = "create_feature_vector_enhanced" /\ unit.tier = "final_augmented") =>
       /\ \A i \in 1..Len(unit.fv) : unit.fv[i] = 0 \/ (unit.fv[i] >= 500 /\ unit.fv[i] <= 3000)
       /\ Cardinality({ i \in 1..Len(unit.fv) : unit.fv[i] # 0 })
            = (IF unit.symptom_obj.name = "zzz" THEN 0 ELSE 1)
  /\ (unit.fn = "create_feature_vector_enhanced" /\ unit.tier = "columbia") =>
       /\ \A i \in 1..Len(unit.fv) : unit.fv[i] = 0 \/ (unit.fv[i] >= 1000 /\ unit.fv[i] <= 8000)
       /\ Cardinality({ i \in 1..Len(unit.fv) : unit.fv[i] # 0 })
            = (IF unit.symptom_obj.name = "zzz" THEN 0 ELSE 1)

\* the columbia weight of a very severe symptom of more than a month with base 9.0:
\* 9.0 * 1.8 * 1.6 is capped at 8.0
ClippedWeightWitness ==
  /\ unit.fn = "calculate_weight"
  /\ unit.tier = "columbia"
  /\ unit.base_weight = 9000
  /\ unit.severity = "very severe"
  /\ unit.duration = "more than 1 month"
  /\ unit.result = 8000

\* C19: when the classifier of the tier that serves a request raises, the caller is
\* told so: the response has an error status or its body has an error field.
PredictionFailureContained ==
  (Handled /\ invoked /\ classifier.raises) =>
    response.status >= 400 \/ response.result.error # NoneStr

\* C20: the primary model that / and /model_info name is the tier selected at startup,
\* the one the routing endpoints send their requests to.
ReportedServingTier ==
  request.endpoint \in {"/", "/model_info"} =>
    /\ response.result.primary_model = symptom_checker
    /\ routed \subseteq {response.result.primary_model}

\* the response of the request being handled is what its handler computes from the
\* request, the classifier output and the checker globals, whatever was handled before
ResponseOf(out) ==
  /\ response = [status |-> out.status, raised |-> out.raised, result |-> out.result]
  /\ active = out.active
  /\ invoked = out.called
  /\ feature_vector = out.fv

\* C21, the state part: the response of every prediction endpoint is the one the
\* handler gives to that request on its own
ResponseAsAlone ==
  request.endpoint \in PredictionEndpoints =>
    ResponseOf(OutcomeOf(request.endpoint,
                         [hasKey |-> request.hasKey, symptoms |-> request.symptoms],
                         classifier))

\* C21, the step part: a step of a serving process writes nothing but what belongs
\* to the request it handles and the record of the tiers that were routed to
RequestPathWritesNothingShared ==
  pc = "serving" => UNCHANGED <<pc, bundle, globals>>

SingleFeverPlayedDown ==
  (/\ Served
   /\ Len(request.symptoms) = 1
   /\ request.symptoms[1].name = "fever"
   /\ Len(Predictions) > 0) =>
    Predictions[1].confidence < 100000

\* the normalised symptoms of the call and of disease k of the mapping
ReportedSet == RuleSymptomSet(unit.symptoms)
DiseaseSet(k) == RuleSymptomSet(RuleDiseaseData[k].symptoms)

\* disease k is in the list predict_diseases returned
InResult(k) == \E j \in 1..Len(unit.result) : unit.result[j].disease = RuleDiseaseData[k].name

\* the score of disease k is 0.7 * 2 * match / (userTotal + diseaseTotal)
\* + 0.3 * |intersection| / |diseaseSymptoms|, it lies in [0, 1] and is 0 when the
\* intersection is empty
ScoreAsStated(k) ==
  /\ ReportedSet \cap DiseaseSet(k) = {} => unit.scores[k].num = 0
  /\ ReportedSet \cap DiseaseSet(k) # {} =>
       unit.scores[k].num * 10 * (RuleTotalWeight(ReportedSet) + RuleTotalWeight(DiseaseSet(k)))
                          * Cardinality(DiseaseSet(k))
         = unit.scores[k].den
             * (14 * RuleTotalWeight(ReportedSet \cap DiseaseSet(k)) * Cardinality(DiseaseSet(k))
                + 3 * Cardinality(ReportedSet \cap DiseaseSet(k))
                    * (RuleTotalWeight(ReportedSet) + RuleTotalWeight(DiseaseSet(k))))
  /\ unit.scores[k].den > 0
  /\ unit.scores[k].num >= 0
  /\ unit.scores[k].num <= unit.scores[k].den

\* the diseases of the mapping whose score is above 0.05
AboveThreshold ==
  { k \in 1..Len(RuleDiseaseData) : 20 * unit.scores[k].num > unit.scores[k].den }

\* C23, as the code has it: the score is the stated weighted overlap, lies in [0, 1]
\* and is 0 for an empty intersection; a disease is returned only if its score is
\* above 0.05, so a score of exactly 0.05 is dropped as well; of the diseases above
\* 0.05 the top_n with the highest rounded confidence are returned, all of them when
\* there are no more than top_n; "itching" alone scores 69/270 against the three
\* symptoms of weight 1, 3 and 4 and exactly 0.05 against the thirteen of weight 51.
WeightedOverlapScore ==
  (unit.fn = "predict_diseases" /\ Len(unit.symptoms) > 0) =>
    /\ \A k \in 1..Len(RuleDiseaseData) :
         /\ ScoreAsStated(k)
         /\ InResult(k) => k \in AboveThreshold
         /\ (k \in AboveThreshold /\ Cardinality(AboveThreshold) <= unit.top_n) => InResult(k)
    /\ Len(unit.result) = Min(unit.top_n, Cardinality(AboveThreshold))
    /\ \A j \in 1..(Len(unit.result) - 1) :
         unit.result[j].confidence >= unit.result[j + 1].confidence
    /\ unit.symptoms = <<"itching">> =>
         /\ unit.scores[1].num * 270 = unit.scores[1].den * 69
         /\ unit.scores[2].num * 20 = unit.scores[2].den
         /\ unit.top_n = DefaultTopK =>
              unit.result = << [disease |-> "Fungal infection", confidence |-> 256,
                                matching_symptoms |-> 1] >>

\* "itching" alone with the default top_n: the thirteen-symptom disease scores
\* exactly 0.05 and is not returned
WeightedOverlapWitness ==
  /\ unit.fn = "predict_diseases"
  /\ unit.symptoms = <<"itching">>
  /\ unit.top_n = DefaultTopK
  /\ unit.scores[2].num * 20 = unit.scores[2].den
  /\ ~InResult(2)
  /\ InResult(1)

\* C23: the score is the stated weighted overlap, lies in [0, 1], is 0 when the
\* intersection is empty, and a disease is dropped from the result if and only if
\* its score is below 0.05 (read for calls whose top_n does not cut the list).
WeightedOverlapDroppedBelow ==
  (/\ unit.fn = "predict_diseases"
   /\ Len(unit.symptoms) > 0
   /\ unit.top_n >= Len(RuleDiseaseData)) =>
    \A k \in 1..Len(RuleDiseaseData) :
      /\ ScoreAsStated(k)
      /\ ~InResult(k) <=> 20 * unit.scores[k].num < unit.scores[k].den

\* C24: the 400 input errors raised inside a prediction handler (no symptoms; on
\* /predict_symptom_enhanced also a symptom that is not an object or has no name)
\* reach the caller with status 400; the handler's catch-all does not turn them
\* into a 500.
InputErrorStatusPreserved ==
  (/\ request.endpoint \in RoutingEndpoints
   /\ response.raised \in {"NO_SYMPTOMS", "NOT_AN_OBJECT", "MISSING_NAME"}) =>
    response.status = 400

\* C25: in the fallback tier a prediction of a serious disease gets the 0.05
\* multiplier and the note that a single-symptom diagnosis of serious conditions is
\* unreliable when the request has fewer than 2 symptoms, and the 0.15 multiplier
\* when it has exactly 2 (the rules that follow can only lower the confidence
\* further; for a disease that is not rare they leave two symptoms alone).
SeriousDiseaseRule ==
  (Served /\ active = "legacy") =>
    \A i \in 1..Len(Predictions) :
      (IsLabel(Predictions[i]) /\ LegacySerious[Predictions[i].disease]) =>
        /\ Len(request.symptoms) < 2 =>
             /\ InList("single_symptom_unreliable", Predictions[i].safety_notes)
             /\ Predictions[i].confidence <= LegacyScale(Predictions[i].original_confidence, 500)
        /\ Len(request.symptoms) = 2 =>
             /\ Predictions[i].confidence <= LegacyScale(Predictions[i].original_confidence, 1500)
             /\ ~LegacyRare[Predictions[i].disease] =>
                  Predictions[i].confidence
                    = LegacyScale(Predictions[i].original_confidence, 1500)

\* C26: the synthetic low-information entry of the fallback tier, as returned to the
\* caller, has confidence 0 and carries its recommendation to obtain professional
\* medical evaluation; no later step replaces it with self-care advice.
SentinelKeepsAdvice ==
  (Served /\ active = "legacy") =>
    \A i \in 1..Len(Predictions) :
      Predictions[i].disease = "General Medical Concern" =>
        /\ Predictions[i].confidence = 0
        /\ Predictions[i].recommendations = "professional_evaluation"

\* C27: a final_augmented bundle that provides the model, the label encoder and the
\* feature columns but whose metadata has no test accuracy still gives an available
\* primary tier, the one the routing endpoints serve from.
MetadataOptional ==
  (bundle.final_augmented = "no_test_accuracy" /\ assigned["final_augmented"] = 1) =>
    /\ final_augmented_checker = "obj"
    /\ pc = "serving" => symptom_checker = "final_augmented"

\* the request names exactly one symptom that the vocabularies know, next to names
\* that no vocabulary knows
OneMatchedAmongUnmatched ==
  /\ Len(request.symptoms) > 1
  /\ \A i \in 1..Len(request.symptoms) : request.symptoms[i].name \in {"fever", "cough", "zzz"}
  /\ Cardinality({ i \in 1..Len(request.symptoms) : request.symptoms[i].name # "zzz" }) = 1

\* C28: the safety rules count the symptoms that matched the vocabulary: a request
\* with exactly one matched symptom and any number of unmatched names gets the
\* single-symptom reduction (at most 0.4 of the raw confidence in every tier) and
\* never a confidence above the raw one.
UnmatchedNotEvidence ==
  (Served /\ OneMatchedAmongUnmatched) =>
    \A i \in 1..Len(Predictions) :
      IsLabel(Predictions[i]) =>
        Predictions[i].confidence <= Mul(RawOf(ServedClasses, Predictions[i].disease), 40)

\* the label array of the tier of the call
UnitClasses ==
  IF unit.tier = "final_augmented" THEN FinalClasses
  ELSE IF unit.tier = "columbia" THEN ColumbiaClasses
  ELSE LegacyClasses

\* the confidence the safety rules of the tier give label l for the call
AdjustedOf(l) ==
  IF unit.tier = "final_augmented"
    THEN FinalAdjust(FinalClasses[l], unit.cls.proba[l], Len(unit.symptom_objects),
                     FinalCreateFeatureVectorEnhanced(unit.symptom_objects,
                                                      FinalEmptyVector).weights)
  ELSE IF unit.tier = "columbia"
    THEN ColumbiaAdjust(ColumbiaClasses[l], unit.cls.proba[l], Len(unit.symptom_objects))
  ELSE LegacyScale(unit.cls.proba[l],
                   LegacyMultiplier(LegacyClasses[l], unit.symptom_objects).m)

\* the floor of the tier: the legacy tier skips what falls below 0.03
FloorOf == IF unit.tier = "legacy" THEN 30000 ELSE 0

\* the returned predictions that name a label and have at least confidence c
ReturnedAtLeast(c) ==
  { j \in 1..Len(unit.predictions) :
      /\ InList(unit.predictions[j].disease, UnitClasses)
      /\ unit.predictions[j].confidence >= c }

\* C29: in every tier the returned non-synthetic predictions are the k labels with
\* the highest safety-adjusted confidence among all labels of the tier that survive
\* the floor: a surviving label that is not returned has k returned labels at or
\* above its adjusted confidence.
TopKAfterAdjustment ==
  (unit.fn = "predict_diseases_enhanced" /\ ~unit.cls.raises) =>
    \A l \in 1..Len(UnitClasses) :
      (/\ AdjustedOf(l) >= FloorOf
       /\ \A j \in 1..Len(unit.predictions) : unit.predictions[j].disease # UnitClasses[l]) =>
        Cardinality(ReturnedAtLeast(AdjustedOf(l))) >= unit.top_k

\* the severity one step below on the scale mild < moderate < severe < very severe
SeverityBelow(severity) ==
  IF severity = "very severe" THEN "severe"
  ELSE IF severity = "severe" THEN "moderate"
  ELSE "mild"

\* C30: in every tier, for a fixed symptom and duration, the weight and the feature
\* value do not decrease along mild < moderate < severe < very severe: each is at
\* least what the same call gives for the severity one step below.
SeverityMonotone ==
  /\ (/\ unit.fn = "calculate_weight"
      /\ unit.severity \in {"moderate", "severe", "very severe"}) =>
       unit.result >=
         (IF unit.tier = "final_augmented"
            THEN FinalEnhancementWeight(unit.base_weight, SeverityBelow(unit.severity),
                                        unit.duration)
            ELSE ColumbiaSymptomWeight(unit.base_weight, SeverityBelow(unit.severity),
                                       unit.duration))
  /\ (/\ unit.fn = "create_feature_vector_enhanced"
      /\ unit.symptom_obj.severity \in {"moderate", "severe", "very severe"}) =>
       \A i \in 1..Len(unit.fv) :
         unit.fv[i] >=
           CreateFeatureVectorEnhanced(unit.tier,
             << [unit.symptom_obj EXCEPT
                   !.severity = SeverityBelow(unit.symptom_obj.severity)] >>)[i]

====
